---- MODULE Spec2Model ----
(***************************************************************************)
(* Verification model of the OCR request orchestration engine of the      *)
(* extension's background script: the API request queue (throttler), the  *)
(* remote extraction call with its retry loop, and the processImage       *)
(* handler with its result cache.                                          *)
(*                                                                         *)
(* The background script is single-threaded: every action below is one    *)
(* run-to-completion step between two suspension points (await, timer,    *)
(* callback) of the JavaScript source.                                     *)
(***************************************************************************)
EXTENDS Integers, Sequences, FiniteSets, TLC

\* ------------------------------------------------------------------------
\* Bounds of the model
\* ------------------------------------------------------------------------

\* number of execute() calls made on the queue
MaxCalls == 3

\* Date.now() when the background script starts (lastRequest is 0 then)
StartTime == 1000

\* how far the clock advances past StartTime, in milliseconds
Horizon == 1200

\* granularity of the clock, in milliseconds
TickMs == 50

\* number of testApiKey commands handled
MaxTests == 1

\* number of processImage commands handled
MaxReqs == 2

\* number of changes made to the stored settings
MaxChanges == 1

\* number of times the life time of cachedSettings runs out
MaxExpiries == 1

\* number of operations made on the result cache taken alone
MaxCacheOps == 3

\* number of keys beyond the capacity of the cache used in those operations
ExtraKeys == 2

\* streamedDockOcr requests received
MaxTabReqs == 3

\* automatic recoveries (handleCriticalError reaching MAX_ERRORS)
MaxRecoveries == 1

\* messages received by the onMessage listener
MaxMsgs == 2

\* loadSettings calls
MaxLoads == 2

\* characters of a text given to postProcessOcrResult
MaxText == 3

\* digits of a text given to formatPhoneNumber
MaxDigits == 13

\* characters of a text given to parseMultiFieldResult
MaxParse == 3

\* ------------------------------------------------------------------------
\* Program constants
\* ------------------------------------------------------------------------

\* APIRequestQueue.minInterval
minInterval == 500

\* delay of the setTimeout that re-runs processQueue after a call
nextDelay == 50

VARIABLES
    now,          \* Date.now()
    queue,        \* APIRequestQueue.queue: calls waiting, oldest first
    processing,   \* APIRequestQueue.processing
    lastRequest,  \* APIRequestQueue.lastRequest
    workers,      \* processQueue invocations past the guard, not yet finished
    timers,       \* pending setTimeout(() => this.processQueue(), 50)
    promise,      \* state of the promise execute() returned, per call
    outcome,      \* how the call's requestFn settled, per call
    starts,       \* invocations of requestFn so far, in order, with their time
    submitted,    \* number of execute() calls made so far
    body,         \* extractTextWithGemini's requestFn, per call: where it is
    attempt,      \* its loop variable `attempt`, per call, counted from 1
    http,         \* HTTP requests to the remote endpoint that are in flight
    tests,        \* number of testApiKey commands handled so far
    storage,         \* chrome.storage.local: the four OCR settings
    cachedSettings,  \* the background script's cachedSettings
    g_image,      \* extractTextWithGemini: the imageData argument
    g_pc,         \* where the requestFn of that call is
    g_processed,  \* its processedImageData
    g_attempt,    \* its loop variable `attempt`
    g_fetches,    \* number of fetch(apiUrl) calls it has made
    g_backoffs,   \* number of back-off waits it has started
    g_compress,   \* whether it called compressImageToSize, and how that ended
    g_resps,      \* how each of its attempts ended, in order
    g_error,      \* the error it threw to its caller, if any
    imageCache,   \* the Map imageCache: its entries in insertion order
    reqs,         \* the processImage commands: where each handler is
    started,      \* number of processImage commands received so far
    served,       \* (image, field, fingerprint) of the commands answered
                  \* with success since the cache was last cleared
    changes,      \* number of changes made to the stored settings so far
    dropped,      \* keys that a settings change or clearCache removed from the
                  \* cache and that were not stored again since
    lastEvent,    \* the last settings change or clearCache, and imageCache
                  \* before it, until the next store
    h_flags,      \* EnhancedHybridOCRManager: useLocalLLM, localLLMReady, and
                  \* whether the local engine is initialized
    h_field,      \* options.fieldType of the extractText call
    h_pc,         \* where the extractText call is
    h_localCalls, \* calls of localLLM.extractText made by it
    h_remoteCalls,\* calls of extractTextWithGemini made by it
    h_local,      \* how the local call ended
    h_remote,     \* how the remote call ended
    h_result,     \* the result extractText returned
    h_error,      \* the error extractText threw
    c_op,         \* the last operation made on imageCache taken alone
    c_prev,       \* imageCache before that operation
    c_ops,        \* number of such operations so far
    l_image,      \* compressImageToSize: base64 length of its imageData
    l_pc,         \* where the call is
    l_step,       \* the loop index i, counted from 1
    l_tried,      \* the options of the optimizeImage calls made, in order
    l_results,    \* what those calls gave, in order
    l_result,     \* the image it returned
    activeProcessing,  \* the Set of tab ids marked as processing
    t_reqs,       \* the streamedDockOcr requests received
    t_closed,     \* the tabs that have been closed
    t_last,       \* the last step that ended a request or closed a tab
    t_recoveries, \* number of automatic recoveries made
    m_msgs,       \* the messages the onMessage listener has received
    b_in,         \* a request whose handler notifies the tab, and how its OCR ends
    b_all,        \* its handler when every notification is delivered
    b_some,       \* the same handler when some notifications are not
    b_sent,        \* which of the notifications so far were delivered
    s_loads,       \* the loadSettings calls, each with its position and result
    f_call,       \* a call of a text function: its name and arguments
    f_out,         \* what the call returned, and what the call on that returned
    r_pc,          \* processImageForOCR: how far one request has come
    isProcessingCancelled,  \* the flag of that name
    k_handled,    \* whether a cancelProcessing message has been handled
    k_msgs,       \* number of cancelProcessing and checkProcessingStatus
                  \* messages handled so far
    k_reply,      \* the response to the last of them
    k_at,         \* the processImage commands in flight and the number of
                  \* commands received when cancelProcessing was last handled
    e_engine,     \* LocalLLMEngine.engine: null, or the model it was created with
    e_initialized,\* LocalLLMEngine.initialized
    e_modelName,  \* LocalLLMEngine.modelName
    e_isLoading,  \* LocalLLMEngine.isLoading
    e_webllmLoaded, \* LocalLLMEngine.webllmLoaded
    e_calls,      \* the calls of initialize, switchModel and extractText
    e_seen        \* what the last getStatus call returned

qvars == <<now, queue, processing, lastRequest, workers, timers, promise,
           outcome, starts, submitted>>

nvars == <<body, attempt, http, tests>>

svars == <<storage, cachedSettings>>

gvars == <<g_image, g_pc, g_processed, g_attempt, g_fetches, g_backoffs,
           g_compress,
           g_resps, g_error>>

pvars == <<imageCache, reqs, started, served, changes, dropped, lastEvent>>

hvars == <<h_flags, h_field, h_pc, h_localCalls, h_remoteCalls, h_local,
           h_remote, h_result, h_error>>

\* the variables an action of the queue, of the HTTP layer or of a single
\* extractTextWithGemini call leaves alone
cvars == <<c_op, c_prev, c_ops>>

lvars == <<l_image, l_pc, l_step, l_tried, l_results, l_result>>

tvars == <<activeProcessing, t_reqs, t_closed, t_last, t_recoveries>>

mvars == <<m_msgs>>

bvars == <<b_in, b_all, b_some, b_sent>>

slvars == <<s_loads>>

fvars == <<f_call, f_out>>

rvars == <<r_pc>>

kvars == <<isProcessingCancelled, k_handled, k_msgs, k_reply, k_at>>

evars == <<e_engine, e_initialized, e_modelName, e_isLoading, e_webllmLoaded, e_calls, e_seen>>

xvars == <<mvars, bvars, slvars, fvars, rvars, kvars, evars>>

base == <<qvars, nvars, svars, gvars, pvars, hvars, cvars, lvars, tvars>>

\* all of it but storage and cachedSettings
baseS == <<qvars, nvars, gvars, pvars, hvars, cvars, lvars, tvars>>

restM == <<base, bvars, slvars, fvars, rvars, kvars, evars>>

restB == <<base, mvars, slvars, fvars, rvars, kvars, evars>>

restS == <<baseS, mvars, bvars, fvars, rvars, kvars, evars>>

restF == <<base, mvars, bvars, slvars, rvars, kvars, evars>>

restR == <<base, mvars, bvars, slvars, fvars, kvars, evars>>

restK == <<base, mvars, bvars, slvars, fvars, rvars, evars>>

restE == <<base, mvars, bvars, slvars, fvars, rvars, kvars>>

restQ == <<nvars, svars, gvars, pvars, hvars, cvars, lvars, tvars, xvars>>

restN == <<svars, gvars, pvars, hvars, cvars, lvars, tvars, xvars>>

restG == <<qvars, nvars, pvars, hvars, cvars, lvars, tvars, xvars>>

restP == <<queue, processing, lastRequest, workers, timers, promise, outcome,
           starts, submitted, nvars, gvars, hvars, cvars, lvars, tvars, xvars>>

restH == <<qvars, nvars, svars, gvars, pvars, cvars, lvars, tvars, xvars>>

restC == <<qvars, nvars, svars, gvars, hvars, reqs, started, served, changes,
           dropped, lastEvent, lvars, tvars, xvars>>

restL == <<qvars, nvars, svars, gvars, pvars, hvars, cvars, tvars, xvars>>

restT == <<qvars, nvars, svars, gvars, pvars, hvars, cvars, lvars, xvars>>

Calls == 1..MaxCalls

\* ------------------------------------------------------------------------
\* APIRequestQueue
\* ------------------------------------------------------------------------

\* processQueue's guard: if (this.processing || this.queue.length === 0) return
CanStartIgnoringFlag(proc, q) == Len(q) > 0

CanStart(proc, q) == ~proc /\ Len(q) > 0

\* this.queue.shift(): the entry taken and the queue left
ShiftNewest(q) == [entry |-> q[Len(q)], rest |-> SubSeq(q, 1, Len(q) - 1)]

Shift(q) == [entry |-> Head(q), rest |-> Tail(q)]

\* the wait before the call: minInterval - elapsed when elapsed < minInterval
SpacingWaitHalved(elapsed) ==
    IF elapsed < minInterval THEN (minInterval - elapsed) \div 2 ELSE 0

SpacingWait(elapsed) ==
    IF elapsed < minInterval THEN minInterval - elapsed ELSE 0

\* resolve(result) / reject(error): the new state of the promises
DeliverToLatest(p, c, res) ==
    LET pending == {d \in DOMAIN p : p[d] = "pending"}
        latest == CHOOSE d \in pending \cup {c} :
                      \A e \in pending \cup {c} : d >= e
    IN [p EXCEPT ![latest] = IF res = "ok" THEN "fulfilled" ELSE "rejected"]

Deliver(p, c, res) ==
    [p EXCEPT ![c] = IF res = "ok" THEN "fulfilled" ELSE "rejected"]

\* deadlines of all pending timers of the queue
Deadlines ==
    {t.at : t \in timers} \cup {w.wake : w \in {v \in workers : v.pc = "sleep"}}

\* a timer fires no earlier than its deadline, and timers fire in deadline order
Due(at) == now >= at /\ \A d \in Deadlines : d >= at

\* processQueue(), called with the queue contents q
ProcessQueue(q) ==
    IF CanStart(processing, q)
    THEN LET c == Shift(q).entry
             wait == SpacingWait(now - lastRequest)
         IN /\ processing' = TRUE
            /\ queue' = Shift(q).rest
            /\ IF wait > 0
               THEN /\ workers' = workers \cup
                          {[call |-> c, pc |-> "sleep", wake |-> now + wait]}
                    /\ starts' = starts
               ELSE /\ workers' = workers \cup
                          {[call |-> c, pc |-> "run", wake |-> now]}
                    /\ starts' = Append(starts, [call |-> c, at |-> now])
    ELSE /\ queue' = q
         /\ UNCHANGED <<processing, workers, starts>>

\* execute(requestFn): push the entry, call processQueue
Execute ==
    /\ submitted < MaxCalls
    /\ submitted' = submitted + 1
    /\ promise' = [promise EXCEPT ![submitted + 1] = "pending"]
    /\ ProcessQueue(Append(queue, submitted + 1))
    /\ UNCHANGED <<now, lastRequest, timers, outcome, restQ>>

\* the spacing timer of a waiting processQueue fires: requestFn is invoked
WakeWorker(w) ==
    /\ w \in workers
    /\ w.pc = "sleep"
    /\ Due(w.wake)
    /\ workers' = (workers \ {w}) \cup {[w EXCEPT !.pc = "run"]}
    /\ starts' = Append(starts, [call |-> w.call, at |-> now])
    /\ UNCHANGED <<now, queue, processing, lastRequest, timers, promise,
                   outcome, submitted, restQ>>

\* a settlement whose clean-up runs only after a fulfilled call: a rejected
\* call leaves `processing` set and sets no timer
FinishWithoutFinally(w, res) ==
    /\ promise' = Deliver(promise, w.call, res)
    /\ outcome' = [outcome EXCEPT ![w.call] = res]
    /\ lastRequest' = IF res = "ok" THEN now ELSE lastRequest
    /\ processing' = (res # "ok")
    /\ timers' = IF res = "ok"
                 THEN timers \cup {[by |-> w.call, at |-> now + nextDelay]}
                 ELSE timers
    /\ workers' = workers \ {w}

\* the effect of requestFn settling with res: resolve or reject, then finally
Finish(w, res) ==
    /\ promise' = Deliver(promise, w.call, res)
    /\ outcome' = [outcome EXCEPT ![w.call] = res]
    /\ lastRequest' = now
    /\ processing' = FALSE
    /\ timers' = timers \cup {[by |-> w.call, at |-> now + nextDelay]}
    /\ workers' = workers \ {w}

\* requestFn settles (fulfilled or rejected), seen as an opaque function
Settle(w, res) ==
    /\ w \in workers
    /\ w.pc = "run"
    /\ Finish(w, res)
    /\ UNCHANGED <<now, queue, starts, submitted, restQ>>

\* the 50 ms timer set in finally fires: processQueue()
TimerFire(t) ==
    /\ t \in timers
    /\ Due(t.at)
    /\ timers' = timers \ {t}
    /\ ProcessQueue(queue)
    /\ UNCHANGED <<now, lastRequest, promise, outcome, submitted, restQ>>

\* time passes
Tick ==
    /\ now + TickMs <= StartTime + Horizon
    /\ now' = now + TickMs
    /\ UNCHANGED <<queue, processing, lastRequest, workers, timers, promise,
                   outcome, starts, submitted, restQ>>

\* the deadlines still to come
Coming == {d \in Deadlines : d > now}

\* time passes: up to the next deadline when a timer is still to come, and
\* by a whole minInterval, up to the horizon, when none is
TickOn ==
    /\ IF Coming # {}
       THEN now' = CHOOSE d \in Coming : \A e \in Coming : d <= e
       ELSE /\ now + minInterval <= StartTime + Horizon
            /\ now' = now + minInterval
    /\ UNCHANGED <<queue, processing, lastRequest, workers, timers, promise,
                   outcome, starts, submitted, restQ>>

QInit ==
    /\ now = StartTime
    /\ queue = <<>>
    /\ processing = FALSE
    /\ lastRequest = 0
    /\ workers = {}
    /\ timers = {}
    /\ promise = [c \in Calls |-> "none"]
    /\ outcome = [c \in Calls |-> "none"]
    /\ starts = <<>>
    /\ submitted = 0

NInit ==
    /\ body = [c \in Calls |-> "idle"]
    /\ attempt = [c \in Calls |-> 0]
    /\ http = {}
    /\ tests = 0

\* ------------------------------------------------------------------------
\* Settings: chrome.storage.local and loadSettings
\* ------------------------------------------------------------------------

\* a value that is absent (undefined or null)
Null == "null"

\* life time of cachedSettings, in milliseconds
settingsTtl == 30000

OrDefault(v, d) == IF v = Null THEN d ELSE v

\* cachedSettings as the script declares it
InitialCachedSettings ==
    [apiKey |-> Null, language |-> "ja", mode |-> "accurate",
     model |-> "gemini-2.0-flash", lastUpdate |-> 0]

\* loadSettings' test for answering from cachedSettings
CacheUsable(cs, t) ==
    /\ cs.lastUpdate # 0
    /\ t - cs.lastUpdate < settingsTtl
    /\ cs.apiKey # Null

\* the settings object built from chrome.storage.local.get
ReadSettings(st, t) ==
    [apiKey |-> OrDefault(st.geminiApiKey, Null),
     language |-> OrDefault(st.ocrLanguage, "ja"),
     mode |-> OrDefault(st.ocrMode, "accurate"),
     model |-> OrDefault(st.geminiModel, "gemini-2.0-flash"),
     lastUpdate |-> t]

\* loadSettings(): its result, which is also the new cachedSettings
LoadSettings(cs, st, t) == IF CacheUsable(cs, t) THEN cs ELSE ReadSettings(st, t)

ApiKeys == {Null, "AIza-key"}

Languages == {Null, "en"}

Models == {Null, "gemini-2.5-flash"}

Modes == {Null, "fast"}

Storages ==
    [geminiApiKey : ApiKeys, ocrLanguage : Languages, ocrMode : Modes,
     geminiModel : Models]

\* nothing stored yet, cachedSettings as declared
SIdle ==
    /\ storage = [geminiApiKey |-> Null, ocrLanguage |-> Null, ocrMode |-> Null,
                  geminiModel |-> Null]
    /\ cachedSettings = InitialCachedSettings

\* any stored settings; cachedSettings as declared or as loaded from them
SInit ==
    /\ storage \in Storages
    /\ cachedSettings \in {InitialCachedSettings, ReadSettings(storage, StartTime)}

\* ------------------------------------------------------------------------
\* extractTextWithGemini: one call's requestFn, from its invocation by the
\* queue to its settlement
\* ------------------------------------------------------------------------

MAX_RETRIES == 1

MAX_SIZE_MB == 15

\* the target handed to compressImageToSize
compressTargetMB == 10

MB == 1024 * 1024

\* (base64.length * 0.75) / (1024 * 1024) > limit, in whole numbers
Exceeds(len, limit) == len * 3 > limit * 4 * MB

\* imageData is modelled by how the string starts (head "none" is a missing
\* or empty imageData) and the length of its base64 part
B64Lengths == {1000, 20971520, 20971521}

Images ==
    {[head |-> "none", len |-> 0]} \cup
    [head : {"data:image/", "data:text/"}, len : B64Lengths]

\* !imageData || !imageData.startsWith('data:image/')
ValidImageAnyDataUrl(img) == img.head # "none"

ValidImage(img) == img.head # "none" /\ img.head = "data:image/"

\* a size check that lets every image through
TooLargeNever(img) == FALSE

\* checkImageSize throws
TooLarge(img) == Exceeds(img.len, MAX_SIZE_MB)

\* what compressImageToSize can give: an image within the target, or an error
CompressOutcomes ==
    {[ok |-> FALSE, image |-> [head |-> "none", len |-> 0]]} \cup
    {[ok |-> TRUE, image |-> [head |-> "data:image/", len |-> l]] :
        l \in {k \in B64Lengths \cup {13981013} : ~Exceeds(k, compressTargetMB)}}

\* substrings the error handling looks for in a message
Markers ==
    {"overloaded", "rate limit", "server error", "try again", "timeout",
     "timeout-ja", "temporary-limit"}

\* an error message, as the set of those substrings it contains
\* ("timeout-ja" is 'タイムアウト', "temporary-limit" is '一時的なAPI制限')
ApiMessages == {{}} \cup {{k} : k \in Markers}

Statuses == {400, 403, 429, 500, 503}

\* how one attempt can end: text returned, a 2xx answer without text, an
\* error status with a JSON body (errorMessage containing `marks`) or with a
\* body response.json() cannot parse, the 15 s timer winning the race, or
\* fetch itself rejecting
Responses ==
    {[kind |-> k, status |-> 200, marks |-> {}] : k \in {"text", "notext"}} \cup
    [kind : {"json"}, status : Statuses, marks : ApiMessages] \cup
    [kind : {"notjson"}, status : Statuses, marks : {{}}] \cup
    {[kind |-> k, status |-> 0, marks |-> {}] : k \in {"timeout", "network"}}

\* the inner test that rethrows as '一時的なAPI制限: ...'
RetryableStatus(resp) ==
    \/ resp.marks \cap {"overloaded", "rate limit", "server error", "try again"} # {}
    \/ resp.status = 429
    \/ resp.status >= 500

\* the message of the error the try block throws for a response
ThrownMessage(resp) ==
    CASE resp.kind = "timeout" -> {"timeout-ja"}
      [] resp.kind = "network" -> {}
      [] resp.kind = "notext" -> {}
      [] resp.kind = "notjson" -> {}
      [] resp.kind = "json" ->
           IF RetryableStatus(resp) THEN resp.marks \cup {"temporary-limit"}
           ELSE resp.marks
      [] OTHER -> {}

\* isTemporaryError
IsTemporaryError(msg) ==
    msg \cap {"temporary-limit", "overloaded", "rate limit", "timeout",
              "timeout-ja"} # {}

\* isTemporaryError && attempt < MAX_RETRIES
MayRetryAnyError(msg, att) == att < MAX_RETRIES

MayRetry(msg, att) == IsTemporaryError(msg) /\ att < MAX_RETRIES

NoError == [thrown |-> FALSE, what |-> "", msg |-> {}]

Thrown(what, msg) == [thrown |-> TRUE, what |-> what, msg |-> msg]

\* argument validation, then checkImageSize
GValidate ==
    /\ g_pc = "invoked"
    /\ IF ~ValidImage(g_image)
       THEN /\ g_pc' = "rejected"
            /\ g_error' = Thrown("invalid-image", {})
       ELSE /\ g_pc' = IF TooLarge(g_image) THEN "compress" ELSE "settings"
            /\ g_error' = g_error
    /\ UNCHANGED <<g_image, g_processed, g_attempt, g_fetches, g_backoffs,
                   g_compress, g_resps, svars, restG>>

\* await compressImageToSize(imageData, 10), then checkImageSize again
GCompress(res) ==
    /\ g_pc = "compress"
    /\ g_compress' = IF res.ok THEN "returned" ELSE "failed"
    /\ IF ~res.ok \/ TooLarge(res.image)
       THEN /\ g_pc' = "rejected"
            /\ g_error' = Thrown("compression", {})
            /\ g_processed' = g_processed
       ELSE /\ g_pc' = "settings"
            /\ g_error' = g_error
            /\ g_processed' = res.image
    /\ UNCHANGED <<g_image, g_attempt, g_fetches, g_backoffs, g_resps, svars,
                   restG>>

\* await loadSettings(), the API key test, then the first fetch of the loop
GSettings ==
    /\ g_pc = "settings"
    /\ cachedSettings' = LoadSettings(cachedSettings, storage, now)
    /\ IF cachedSettings'.apiKey = Null
       THEN /\ g_pc' = "rejected"
            /\ g_error' = Thrown("no-api-key", {})
            /\ g_fetches' = g_fetches
       ELSE /\ g_pc' = "race"
            /\ g_error' = g_error
            /\ g_fetches' = g_fetches + 1
    /\ UNCHANGED <<g_image, g_processed, g_attempt, g_backoffs, g_compress,
                   g_resps, storage, restG>>

\* the race of fetch and the 15 s timer ends with resp
GResponse(resp) ==
    /\ g_pc = "race"
    /\ g_resps' = Append(g_resps, resp)
    /\ IF resp.kind = "text"
       THEN /\ g_pc' = "resolved"
            /\ UNCHANGED <<g_attempt, g_backoffs, g_error>>
       ELSE IF MayRetry(ThrownMessage(resp), g_attempt)
       THEN /\ g_pc' = "backoff"
            /\ g_attempt' = g_attempt + 1
            /\ g_backoffs' = g_backoffs + 1
            /\ g_error' = g_error
       ELSE /\ g_pc' = "rejected"
            /\ g_error' = Thrown("attempt", ThrownMessage(resp))
            /\ UNCHANGED <<g_attempt, g_backoffs>>
    /\ UNCHANGED <<g_image, g_processed, g_fetches, g_compress, svars, restG>>

\* the back-off timer fires: continue, the loop issues the next fetch
GBackoffDone ==
    /\ g_pc = "backoff"
    /\ IF g_attempt <= MAX_RETRIES
       THEN /\ g_pc' = "race"
            /\ g_fetches' = g_fetches + 1
            /\ g_error' = g_error
       ELSE /\ g_pc' = "rejected"
            /\ g_fetches' = g_fetches
            /\ g_error' = Thrown("all-retries-failed", {})
    /\ UNCHANGED <<g_image, g_processed, g_attempt, g_backoffs, g_compress,
                   g_resps, svars, restG>>

\* no call under way
GIdle ==
    /\ g_image = [head |-> "none", len |-> 0]
    /\ g_pc = "idle"
    /\ g_processed = [head |-> "none", len |-> 0]
    /\ g_attempt = 0
    /\ g_fetches = 0
    /\ g_backoffs = 0
    /\ g_compress = "none"
    /\ g_resps = <<>>
    /\ g_error = NoError

\* the queue invokes the requestFn of a call made with any imageData
GInit ==
    /\ g_image \in Images
    /\ g_pc = "invoked"
    /\ g_processed = g_image
    /\ g_attempt = 0
    /\ g_fetches = 0
    /\ g_backoffs = 0
    /\ g_compress = "none"
    /\ g_resps = <<>>
    /\ g_error = NoError

\* ------------------------------------------------------------------------
\* The HTTP requests to the remote endpoint: those of extractTextWithGemini,
\* the only caller of apiRequestQueue.execute, and that of testApiKey.
\* The 15 s race and the back-off are waits whose length plays no part here:
\* they end at any later step.
\* ------------------------------------------------------------------------

\* the running invocation of call c's requestFn
Invocation(c) == {w \in workers : w.call = c /\ w.pc = "run"}

\* the fetch the call is awaiting in Promise.race
Awaited(c) == [by |-> "extractTextWithGemini", call |-> c, n |-> attempt[c]]

\* validation, size check or missing API key: the requestFn throws before the
\* retry loop, no fetch is made
BodyReject(c) ==
    /\ body[c] = "idle"
    /\ \E w \in Invocation(c) : Finish(w, "err")
    /\ body' = [body EXCEPT ![c] = "done"]
    /\ UNCHANGED <<now, queue, starts, submitted, attempt, http, tests, restN>>

\* the retry loop issues fetch(apiUrl, ...) and awaits the race with the timer
BodyFetch(c) ==
    /\ Invocation(c) # {}
    /\ body[c] \in {"idle", "backoff"}
    /\ attempt' = [attempt EXCEPT ![c] = attempt[c] + 1]
    /\ http' = http \cup
                 {[by |-> "extractTextWithGemini", call |-> c, n |-> attempt[c] + 1]}
    /\ body' = [body EXCEPT ![c] = "fetch"]
    /\ UNCHANGED <<qvars, tests, restN>>

\* the response arrives with the extracted text: the requestFn returns
FetchOk(c) ==
    /\ body[c] = "fetch"
    /\ Awaited(c) \in http
    /\ http' = http \ {Awaited(c)}
    /\ \E w \in Invocation(c) : Finish(w, "ok")
    /\ body' = [body EXCEPT ![c] = "done"]
    /\ UNCHANGED <<now, queue, starts, submitted, attempt, tests, restN>>

\* the catch block of the retry loop: retry after the back-off, or rethrow
Caught(c, temporary) ==
    IF temporary /\ attempt[c] - 1 < MAX_RETRIES
    THEN /\ body' = [body EXCEPT ![c] = "backoff"]
         /\ UNCHANGED qvars
    ELSE /\ body' = [body EXCEPT ![c] = "done"]
         /\ \E w \in Invocation(c) : Finish(w, "err")
         /\ UNCHANGED <<now, queue, starts, submitted>>

\* the response arrives and the attempt fails (error status, no text)
FetchFail(c, temporary) ==
    /\ body[c] = "fetch"
    /\ Awaited(c) \in http
    /\ http' = http \ {Awaited(c)}
    /\ Caught(c, temporary)
    /\ UNCHANGED <<attempt, tests, restN>>

\* the 15 s timer wins the race: the fetch is abandoned, not aborted
FetchTimeout(c) ==
    /\ body[c] = "fetch"
    /\ Awaited(c) \in http
    /\ Caught(c, TRUE)
    /\ UNCHANGED <<attempt, http, tests, restN>>

\* an abandoned fetch completes; nobody awaits it
LateResponse(h) ==
    /\ h \in http
    /\ h.by = "extractTextWithGemini"
    /\ ~(body[h.call] = "fetch" /\ h = Awaited(h.call))
    /\ http' = http \ {h}
    /\ UNCHANGED <<qvars, body, attempt, tests, restN>>

\* messageHandlers.testApiKey: fetch(...) called directly by the handler
TestApiKey ==
    /\ tests < MaxTests
    /\ tests' = tests + 1
    /\ http' = http \cup {[by |-> "testApiKey", call |-> 0, n |-> tests + 1]}
    /\ UNCHANGED <<qvars, body, attempt, restN>>

\* testApiKey's response arrives
TestApiKeyResponse(h) ==
    /\ h \in http
    /\ h.by = "testApiKey"
    /\ http' = http \ {h}
    /\ UNCHANGED <<qvars, body, attempt, tests, restN>>

\* time passes, seen at the granularity of the spacing interval
TickInterval ==
    /\ now + minInterval <= StartTime + Horizon
    /\ now' = now + minInterval
    /\ UNCHANGED <<queue, processing, lastRequest, workers, timers, promise,
                   outcome, starts, submitted, restQ>>

\* ------------------------------------------------------------------------
\* Text post-processing. A text is a sequence of characters, each written
\* as a string: an ASCII character as itself, the full-width digit n as
\* "fwn", the ideographic comma as "ja-comma", an occurrence of a word of
\* ngWordsList as "ng-word", the label '会社名' as "label-company". The last
\* word of ngWordsList, '支店', is also written character by character, as
\* "shi", "ten". Kana: half-width KA and the half-width voiced mark are
\* "hw-ka", "hw-dakuten"; katakana KA, GA, VE are "kata-ka", "kata-ga",
\* "kata-ve"; hiragana KA, GA are "hira-ka", "hira-ga"; U+309B is "dakuten"
\* and the combining mark U+3099 is "comb-dakuten". The label '電話番号' is
\* "label-phone".
\* ------------------------------------------------------------------------

Digits == {"0", "1", "2", "3", "4", "5", "6", "7", "8", "9"}

WhiteSpace == {" ", "\t", "\n"}

RECURSIVE Filter(_, _)
\* the characters of t that are in the set keep, in order
Filter(t, keep) ==
    IF t = <<>> THEN <<>>
    ELSE IF Head(t) \in keep THEN <<Head(t)>> \o Filter(Tail(t), keep)
    ELSE Filter(Tail(t), keep)

RECURSIVE TrimStart(_)
TrimStart(t) ==
    IF t # <<>> /\ Head(t) \in WhiteSpace THEN TrimStart(Tail(t)) ELSE t

RECURSIVE TrimEnd(_)
TrimEnd(t) ==
    IF t # <<>> /\ t[Len(t)] \in WhiteSpace
    THEN TrimEnd(SubSeq(t, 1, Len(t) - 1))
    ELSE t

\* String.prototype.trim
Trim(t) == TrimEnd(TrimStart(t))

\* text.includes(ch)
Includes(t, ch) == \E i \in 1..Len(t) : t[i] = ch

\* text.startsWith(p)
StartsWith(t, p) == Len(t) >= Len(p) /\ SubSeq(t, 1, Len(p)) = p

\* text.length, a word of ngWordsList counted as its shortest, 2 characters
RECURSIVE Length(_)
Length(t) ==
    IF t = <<>> THEN 0
    ELSE (CASE Head(t) = "ng-word" -> 2
            [] Head(t) = "label-company" -> 3
            [] Head(t) = "label-phone" -> 4
            [] OTHER -> 1) + Length(Tail(t))

AllDigits(t) == \A i \in 1..Len(t) : t[i] \in Digits

\* /^\d{2,4}-\d{2,4}-\d{4}$/.test(t)
HyphenatedShape(t) ==
    \E a \in 2..4, b \in 2..4 :
        /\ Len(t) = a + b + 6
        /\ AllDigits(SubSeq(t, 1, a))
        /\ t[a + 1] = "-"
        /\ AllDigits(SubSeq(t, a + 2, a + b + 1))
        /\ t[a + b + 2] = "-"
        /\ AllDigits(SubSeq(t, a + b + 3, a + b + 6))

\* digits.replace(/^(\d{a})(\d{b})(\d{c})$/, '$1-$2-$3') on a + b + c digits
Split3(d, a, b) ==
    SubSeq(d, 1, a) \o <<"-">> \o SubSeq(d, a + 1, a + b) \o <<"-">> \o
    SubSeq(d, a + b + 1, Len(d))

\* ten digits always split as 3-3-4
FormatTenDigitsFlat(d) == Split3(d, 3, 3)

\* the 10-digit branch of formatPhoneNumber
FormatTenDigits(d) ==
    IF \E p \in {<<"0", "3">>, <<"0", "6">>, <<"0", "4">>} : StartsWith(d, p)
    THEN Split3(d, 2, 4)
    ELSE IF \E p \in {<<"0", "5", "2">>, <<"0", "7", "2">>, <<"0", "7", "5">>,
                      <<"0", "7", "8">>, <<"0", "8", "2">>, <<"0", "9", "2">>} :
                StartsWith(d, p)
    THEN Split3(d, 3, 3)
    ELSE IF StartsWith(d, <<"0", "1", "2", "0">>)
    THEN Split3(d, 4, 2)
    ELSE IF StartsWith(d, <<"0">>)
    THEN IF d[2] \in {"4", "5", "6", "7", "8", "9"}
         THEN Split3(d, 3, 3)
         ELSE Split3(d, 2, 4)
    ELSE Split3(d, 3, 3)

\* formatPhoneNumber(digits)
formatPhoneNumber(digits) ==
    IF digits = <<>> THEN <<>>
    ELSE IF Len(Filter(digits, Digits)) > 11 THEN <<>>
    ELSE IF Includes(digits, "-") /\ HyphenatedShape(digits) THEN digits
    ELSE LET d == Filter(digits, Digits)
         IN CASE Len(d) = 10 -> FormatTenDigits(d)
              [] Len(d) = 11 -> Split3(d, 3, 4)
              [] Len(d) = 8 -> SubSeq(d, 1, 4) \o <<"-">> \o SubSeq(d, 5, 8)
              [] Len(d) = 9 -> Split3(d, 3, 3)
              [] OTHER -> d

\* String.fromCharCode(code - 0xFEE0) for the full-width digits
HalfWidth(ch) ==
    CASE ch = "fw0" -> "0"
      [] ch = "fw1" -> "1"
      [] ch = "fw2" -> "2"
      [] ch = "fw3" -> "3"
      [] ch = "fw4" -> "4"
      [] ch = "fw5" -> "5"
      [] ch = "fw6" -> "6"
      [] ch = "fw7" -> "7"
      [] ch = "fw8" -> "8"
      [] ch = "fw9" -> "9"
      [] OTHER -> ch

RECURSIVE ReplacePair(_, _, _, _)
\* t with every occurrence of the two characters a, b replaced by c, from
\* the left
ReplacePair(t, a, b, c) ==
    IF Len(t) < 2 THEN t
    ELSE IF t[1] = a /\ t[2] = b
    THEN <<c>> \o ReplacePair(SubSeq(t, 3, Len(t)), a, b, c)
    ELSE <<Head(t)>> \o ReplacePair(Tail(t), a, b, c)

\* text.normalize('NFC'): a kana followed by the combining voiced mark is
\* composed
NFC(t) ==
    ReplacePair(ReplacePair(t, "hira-ka", "comb-dakuten", "hira-ga"),
                "kata-ka", "comb-dakuten", "kata-ga")

\* the replacement of a half-width katakana followed by the half-width
\* voiced mark
VoicedKatakana(t) == ReplacePair(t, "hw-ka", "hw-dakuten", "kata-ga")

\* halfToFullKatakanaMap[s] || s
halfToFullKatakanaMap(ch) ==
    CASE ch = "hw-ka" -> "kata-ka"
      [] ch = "hw-dakuten" -> "dakuten"
      [] OTHER -> ch

\* String.fromCharCode(code - 0x60) for U+30A1 to U+30FA
Hiragana(ch) ==
    CASE ch = "kata-ka" -> "hira-ka"
      [] ch = "kata-ga" -> "hira-ga"
      [] ch = "kata-ve" -> "comb-dakuten"
      [] OTHER -> ch

\* text.split on an ASCII or an ideographic comma: the pieces, in order
RECURSIVE SplitOnComma(_, _)
SplitOnComma(t, piece) ==
    IF t = <<>> THEN <<piece>>
    ELSE IF Head(t) \in {",", "ja-comma"}
    THEN <<piece>> \o SplitOnComma(Tail(t), <<>>)
    ELSE SplitOnComma(Tail(t), Append(piece, Head(t)))

\* pieces.join(',')
RECURSIVE JoinWithComma(_)
JoinWithComma(pieces) ==
    IF pieces = <<>> THEN <<>>
    ELSE IF Len(pieces) = 1 THEN pieces[1]
    ELSE pieces[1] \o <<",">> \o JoinWithComma(Tail(pieces))

PhoneChars == Digits \cup {"-", "+"}

\* text.replace(/\s+/g, ' ')
RECURSIVE CollapseSpaces(_)
CollapseSpaces(t) ==
    IF t = <<>> THEN <<>>
    ELSE IF Head(t) \in WhiteSpace
    THEN <<" ">> \o CollapseSpaces(TrimStart(t))
    ELSE <<Head(t)>> \o CollapseSpaces(Tail(t))

\* text.replace(pattern, '') for a pattern of the form  tail \s* $
StripAtEnd(t, tail) ==
    LET u == TrimEnd(t)
        n == Len(u) - Len(tail)
    IN IF n >= 0 /\ SubSeq(u, n + 1, Len(u)) = tail THEN SubSeq(u, 1, n) ELSE t

\* the non-empty items of a comma-separated text, trimmed and with their
\* white space collapsed
CleanItems(pieces) ==
    LET cleaned == [i \in 1..Len(pieces) |-> CollapseSpaces(Trim(pieces[i]))]
    IN SelectSeq(cleaned, LAMBDA item : item # <<>>)

\* the words of ngWordsList, as texts
ngWordsList == {<<"ng-word">>, <<"shi", "ten">>}

\* does a word of ngWordsList occur in t
IncludesNgWord(t) ==
    \E w \in ngWordsList, i \in 1..Len(t) :
        i + Len(w) - 1 <= Len(t) /\ SubSeq(t, i, i + Len(w) - 1) = w

RECURSIVE ReplaceNgWords(_)
\* text.replace(ngWordsPattern, ''): one pass from the left, the text after
\* a removed word is scanned, what the removal joins is not
ReplaceNgWords(t) ==
    IF t = <<>> THEN <<>>
    ELSE IF \E w \in ngWordsList : StartsWith(t, w)
    THEN LET w == CHOOSE x \in ngWordsList : StartsWith(t, x)
         IN ReplaceNgWords(SubSeq(t, Len(w) + 1, Len(t)))
    ELSE <<Head(t)>> \o ReplaceNgWords(Tail(t))

\* removeNgWords(text)
removeNgWords(text) ==
    LET noNg == ReplaceNgWords(text)
        items == IF Includes(noNg, ",") \/ Includes(noNg, "ja-comma")
                 THEN JoinWithComma(CleanItems(SplitOnComma(noNg, <<>>)))
                 ELSE noNg
    IN StripAtEnd(StripAtEnd(Trim(items), <<"label-company", ":">>), <<":">>)

\* postProcessOcrResult(text, fieldType), for texts of the characters
\* above; a field type other than 'phone-number', 'payee-name' and 'phonetic'
\* ('clipboard', 'freeform', none) has no step of its own
postProcessOcrResult(text, fieldType) ==
    IF text = <<>> THEN text
    ELSE LET trimmed == Trim(NFC(text))
             half == [i \in 1..Len(trimmed) |-> HalfWidth(trimmed[i])]
             voiced == VoicedKatakana(half)
             t == [i \in 1..Len(voiced) |-> halfToFullKatakanaMap(voiced[i])]
         IN IF fieldType = "phone-number"
            THEN IF Includes(t, ",") \/ Includes(t, "ja-comma")
                 THEN LET pieces == SplitOnComma(t, <<>>)
                      IN JoinWithComma(
                           [i \in 1..Len(pieces) |->
                              formatPhoneNumber(Filter(Trim(pieces[i]), PhoneChars))])
                 ELSE formatPhoneNumber(Filter(t, PhoneChars))
            ELSE IF fieldType = "payee-name"
            THEN Trim(CollapseSpaces(removeNgWords(t)))
            ELSE IF fieldType = "phonetic"
            THEN [i \in 1..Len(t) |-> Hiragana(t[i])]
            ELSE t

\* ------------------------------------------------------------------------
\* processImage: handleImageProcessing and the result cache
\* ------------------------------------------------------------------------

\* imageCache holds at most this many entries
cacheLimit == 30

\* an image of a request: how the string starts, its first 100 characters
\* after that, and the rest of it
PImages ==
    {[head |-> "none", prefix |-> "", rest |-> ""],
     [head |-> "data:image/", prefix |-> "p1", rest |-> "r1"],
     [head |-> "data:image/", prefix |-> "p1", rest |-> "r2"]}

Fields == {"phone-number", "payee-name", "clipboard"}

\* what the backend call of a request gives: an error, or a non-empty text
RawTexts == {<<" ">>, <<"x">>, <<"0", "3">>}

BackendResults ==
    {[ok |-> FALSE, text |-> <<>>]} \cup {[ok |-> TRUE, text |-> t] : t \in RawTexts}

\* the string cacheKeySimple digests, as the sequence of its parts
SampleData(img, fieldType, settings) ==
    <<img.head, img.prefix>> \o
    (IF fieldType = Null THEN <<>> ELSE <<fieldType>>) \o
    <<settings.language, settings.mode, settings.model>>

\* cacheKeySimple: the SHA-256 digest, taken as free of collisions
cacheKeySimple(img, fieldType, settings) ==
    <<"sha256">> \o SampleData(img, fieldType, settings)

\* imageCache.get(key)
CacheGet(cache, key) ==
    IF \E i \in 1..Len(cache) : cache[i].key = key
    THEN [has |-> TRUE,
          value |-> cache[CHOOSE i \in 1..Len(cache) : cache[i].key = key].value]
    ELSE [has |-> FALSE, value |-> <<>>]

\* if (cachedResult): undefined and the empty string are falsy
IsHit(entry) == entry.has /\ entry.value # <<>>

\* imageCache.set(key, value): an existing key keeps its place
CacheSet(cache, key, value) ==
    IF \E i \in 1..Len(cache) : cache[i].key = key
    THEN [i \in 1..Len(cache) |->
            IF cache[i].key = key THEN [key |-> key, value |-> value] ELSE cache[i]]
    ELSE Append(cache, [key |-> key, value |-> value])

\* if (imageCache.size > 30) delete the oldest key
EvictNewest(cache) ==
    IF Len(cache) > cacheLimit THEN SubSeq(cache, 1, Len(cache) - 1) ELSE cache

Evict(cache) == IF Len(cache) > cacheLimit THEN Tail(cache) ELSE cache

\* the store of a result: imageCache.set, then the size limit
CachePut(cache, key, value) == Evict(CacheSet(cache, key, value))

NoResponse == [kind |-> "none", text |-> <<>>, error |-> "", code |-> ""]

Success(text) == [kind |-> "success", text |-> text, error |-> "", code |-> ""]

Failure(error) == [kind |-> "error", text |-> <<>>, error |-> error, code |-> ""]

\* the message of the error processImageForOCR throws for an empty text
\* ('電話番号を...', '支払先名を...', 'テキストを認識できませんでした')
EmptyResultMessage(fieldType) ==
    CASE fieldType = "phone-number" -> "phone-number-not-recognized"
      [] fieldType = "payee-name" -> "payee-name-not-recognized"
      [] OTHER -> "text-not-recognized"

\* !ocrResult.text || ocrResult.text.trim() === ''
IsEmptyTextUntrimmed(text) == text = <<>>

IsEmptyText(text) == text = <<>> \/ Trim(text) = <<>>

\* the handler's answer to emptyResultError
EmptyResult(fieldType) ==
    [kind |-> "error", text |-> <<>>, error |-> EmptyResultMessage(fieldType),
     code |-> "EMPTY_RESULT"]

NoEvent == [kind |-> "none", before |-> <<>>]

NoRequest ==
    [pc |-> "none", image |-> [head |-> "none", prefix |-> "", rest |-> ""],
     field |-> Null, settings |-> InitialCachedSettings, key |-> <<>>,
     present |-> FALSE, wasDropped |-> FALSE, found |-> <<>>, hit |-> FALSE, optimized |-> FALSE,
     enqueued |-> FALSE, calls |-> 0, raw |-> [ok |-> FALSE, text |-> <<>>],
     resp |-> NoResponse, after |-> FALSE]

Reqs == 1..MaxReqs

\* a processImage command arrives: validation, then await loadSettings()
ProcessImage(r, img, fieldType) ==
    /\ r = started + 1
    /\ r \in Reqs
    /\ started' = r
    /\ IF ~ValidImage(img)
       THEN /\ reqs' = [reqs EXCEPT ![r] =
                   [NoRequest EXCEPT !.pc = "done", !.image = img,
                                     !.field = fieldType,
                                     !.resp = Failure("invalid-image")]]
            /\ cachedSettings' = cachedSettings
       ELSE /\ cachedSettings' = LoadSettings(cachedSettings, storage, now)
            /\ reqs' = [reqs EXCEPT ![r] =
                   [NoRequest EXCEPT !.pc = "cacheKey", !.image = img,
                                     !.field = fieldType,
                                     !.settings = cachedSettings',
                                     !.after =
                                         <<img, fieldType,
                                           cacheKeySimple(img, fieldType,
                                                          cachedSettings')>>
                                         \in served]]
    /\ UNCHANGED <<now, storage, imageCache, served, changes, dropped, lastEvent,
                   restP>>

\* cacheKeySimple: await loadSettings(), then the digest of the sample
CacheKey(r) ==
    /\ reqs[r].pc = "cacheKey"
    /\ cachedSettings' = LoadSettings(cachedSettings, storage, now)
    /\ reqs' = [reqs EXCEPT
                  ![r].pc = "lookup",
                  ![r].key = cacheKeySimple(reqs[r].image, reqs[r].field,
                                            cachedSettings')]
    /\ UNCHANGED <<now, storage, imageCache, started, served, changes, dropped,
                   lastEvent, restP>>

\* imageCache.get(cacheKey): answer from the cache, or go on to the OCR
Lookup(r) ==
    /\ reqs[r].pc = "lookup"
    /\ LET entry == CacheGet(imageCache, reqs[r].key)
       IN reqs' = [reqs EXCEPT
                     ![r].present = entry.has,
                     ![r].wasDropped = reqs[r].key \in dropped,
                     ![r].found = entry.value,
                     ![r].hit = IsHit(entry),
                     ![r].pc = IF IsHit(entry) THEN "done" ELSE "optimize",
                     ![r].resp = IF IsHit(entry) THEN Success(entry.value)
                                 ELSE NoResponse]
    /\ UNCHANGED <<now, svars, imageCache, started, served, changes, dropped,
                   lastEvent, restP>>

\* processImageForOCR: optimizeImage returns, extractText puts the remote
\* call in the request queue
Optimize(r) ==
    /\ reqs[r].pc = "optimize"
    /\ reqs' = [reqs EXCEPT ![r].pc = "backend", ![r].optimized = TRUE,
                            ![r].enqueued = TRUE]
    /\ UNCHANGED <<now, svars, imageCache, started, served, changes, dropped,
                   lastEvent, restP>>

\* BackendReturn with the store moved before the empty-text test
BackendReturnStoresFirst(r, res) ==
    /\ reqs[r].pc = "backend"
    /\ LET processedText == postProcessOcrResult(res.text, reqs[r].field)
           stored == CacheSet(imageCache, reqs[r].key, processedText)
           failed == ~res.ok \/ IsEmptyText(res.text)
       IN /\ imageCache' = Evict(stored)
          /\ dropped' = dropped \ {reqs[r].key}
          /\ lastEvent' = NoEvent
          /\ served' = IF Len(stored) > cacheLimit THEN {}
                       ELSE served \cup {<<reqs[r].image, reqs[r].field,
                                          reqs[r].key>>}
          /\ reqs' = [q \in Reqs |->
                       IF q = r
                       THEN [reqs[r] EXCEPT
                               !.pc = "done",
                               !.calls = reqs[r].calls + 1,
                               !.raw = res,
                               !.resp = IF ~failed THEN Success(processedText)
                                        ELSE IF res.ok
                                             THEN EmptyResult(reqs[r].field)
                                             ELSE Failure("backend")]
                       ELSE [reqs[q] EXCEPT
                               !.after = reqs[q].after
                                         /\ Len(stored) <= cacheLimit]]
    /\ UNCHANGED <<now, svars, started, changes, restP>>

\* the remote call settles: the empty-text test, post-processing, the cache
\* store with its size limit, and the response
BackendReturn(r, res) ==
    /\ reqs[r].pc = "backend"
    /\ IF ~res.ok \/ IsEmptyText(res.text)
       THEN /\ reqs' = [reqs EXCEPT
                          ![r].pc = "done",
                          ![r].calls = reqs[r].calls + 1,
                          ![r].raw = res,
                          ![r].resp = IF res.ok THEN EmptyResult(reqs[r].field)
                                      ELSE Failure("backend")]
            /\ UNCHANGED <<imageCache, served, dropped, lastEvent>>
       ELSE LET processedText == postProcessOcrResult(res.text, reqs[r].field)
                stored == CacheSet(imageCache, reqs[r].key, processedText)
            IN /\ imageCache' = Evict(stored)
               /\ dropped' = dropped \ {reqs[r].key}
               /\ lastEvent' = NoEvent
               /\ served' = IF Len(stored) > cacheLimit THEN {}
                            ELSE served \cup {<<reqs[r].image, reqs[r].field,
                                               reqs[r].key>>}
               /\ reqs' = [q \in Reqs |->
                            IF q = r
                            THEN [reqs[r] EXCEPT !.pc = "done",
                                                 !.calls = reqs[r].calls + 1,
                                                 !.raw = res,
                                                 !.resp = Success(processedText)]
                            ELSE [reqs[q] EXCEPT
                                    !.after = reqs[q].after
                                              /\ Len(stored) <= cacheLimit]]
    /\ UNCHANGED <<now, svars, started, changes, restP>>

\* the keys of the entries of a cache
CacheKeys(cache) == {cache[i].key : i \in 1..Len(cache)}

\* changes.geminiApiKey || changes.ocrLanguage || changes.ocrMode ||
\* changes.geminiModel
OcrKeys == {"geminiApiKey", "ocrLanguage", "ocrMode", "geminiModel"}

AffectsOcrNoKey(k) == FALSE

AffectsOcr(k) == k \in OcrKeys

\* a key of chrome.storage.local that is not an OCR setting
OtherKeys == {"useLocalLLM"}

\* a stored OCR setting gets a new value, and the storage.onChanged listener
\* runs: cachedSettings is invalidated and imageCache cleared
ChangeSetting(k, v) ==
    /\ changes < MaxChanges
    /\ changes' = changes + 1
    /\ storage[k] # v
    /\ storage' = [storage EXCEPT ![k] = v]
    /\ cachedSettings' = IF AffectsOcr(k)
                         THEN [cachedSettings EXCEPT !.lastUpdate = 0]
                         ELSE cachedSettings
    /\ imageCache' = IF AffectsOcr(k) THEN <<>> ELSE imageCache
    /\ dropped' = dropped \cup CacheKeys(imageCache)
    /\ lastEvent' = [kind |-> "ocr-setting", before |-> imageCache]
    /\ served' = {}
    /\ reqs' = [q \in Reqs |-> [reqs[q] EXCEPT !.after = FALSE]]
    /\ UNCHANGED <<now, started, restP>>

\* another stored key gets a new value: the listener runs and does nothing
ChangeOther(k) ==
    /\ changes < MaxChanges
    /\ changes' = changes + 1
    /\ cachedSettings' = IF AffectsOcr(k)
                         THEN [cachedSettings EXCEPT !.lastUpdate = 0]
                         ELSE cachedSettings
    /\ imageCache' = IF AffectsOcr(k) THEN <<>> ELSE imageCache
    /\ dropped' = dropped
    /\ lastEvent' = [kind |-> "other-setting", before |-> imageCache]
    /\ UNCHANGED <<now, storage, reqs, started, served, restP>>

\* messageHandlers.clearCache (on an empty cache it changes nothing)
ClearCache ==
    /\ imageCache # <<>>
    /\ imageCache' = <<>>
    /\ dropped' = dropped \cup CacheKeys(imageCache)
    /\ lastEvent' = [kind |-> "clearCache", before |-> imageCache]
    /\ served' = {}
    /\ reqs' = [q \in Reqs |-> [reqs[q] EXCEPT !.after = FALSE]]
    /\ UNCHANGED <<now, svars, started, changes, restP>>

\* the life time of cachedSettings passes
TickTtl ==
    /\ now + settingsTtl <= StartTime + MaxExpiries * settingsTtl
    /\ now' = now + settingsTtl
    /\ UNCHANGED <<svars, pvars, restP>>

PInit ==
    /\ imageCache = <<>>
    /\ reqs = [r \in Reqs |-> NoRequest]
    /\ started = 0
    /\ served = {}
    /\ changes = 0
    /\ dropped = {}
    /\ lastEvent = NoEvent

\* ------------------------------------------------------------------------
\* EnhancedHybridOCRManager.extractText: the local model first, then the
\* Gemini API
\* ------------------------------------------------------------------------

\* this.fallbackToGemini, set by the constructor and never written again
fallbackToGemini == TRUE

HFields == {"phone-number", "payee-name", Null}

\* what engine.chat.completions.create can answer (message.content)
EngineContents ==
    {<<>>, <<" ">>, <<"x">>, <<"x", "y">>, <<"0", "3">>, <<"-">>,
     <<" ", "7", " ">>}

\* how the awaited completion ends
EngineOutcomes ==
    {[kind |-> "throw", text |-> <<>>]} \cup
    {[kind |-> "content", text |-> c] : c \in EngineContents}

\* LocalLLMEngine.extractText: throws when not initialized, when the engine
\* throws and when the answer is empty after trim(); else the trimmed text
LocalExtractText(initialized, out) ==
    IF ~initialized \/ out.kind = "throw" \/ Trim(out.text) = <<>>
    THEN [kind |-> "throw", text |-> <<>>]
    ELSE [kind |-> "text", text |-> Trim(out.text)]

\* isValidResult(text, options)
isValidResult(text, fieldType) ==
    IF text = <<>> \/ Trim(text) = <<>> THEN FALSE
    ELSE IF fieldType = "phone-number"
    THEN \E i \in 1..Len(text) : text[i] \in Digits \cup {"-", "+", "(", ")"}
    ELSE IF fieldType = "payee-name"
    THEN /\ Length(Trim(text)) >= 2
         /\ ~(\A i \in 1..Len(text) :
                text[i] \in Digits \cup {"-", "+", "(", ")"} \cup WhiteSpace)
    ELSE Length(Trim(text)) >= 1

\* texts the Gemini call can resolve with: any non-empty string
RemoteTexts == {<<" ">>, <<"x">>, <<"0", "3">>}

\* how extractTextWithGemini (or the wrapper that looks it up) ends
RemoteOutcomes ==
    {[kind |-> "ok", text |-> t, error |-> ""] : t \in RemoteTexts} \cup
    {[kind |-> "error", text |-> <<>>, error |-> e] :
        e \in {"gemini-error", "gemini-unavailable"}}

NoOutcome == [kind |-> "none", text |-> <<>>, error |-> ""]

NoResult == [text |-> <<>>, source |-> "", usedMethod |-> ""]

\* the local model is tried first
TryLocal(flags) == flags.useLocalLLM /\ flags.localLLMReady

\* after the local call: return its valid result, or go on to the Gemini API
\* (!finalResult && this.fallbackToGemini), or throw
AfterLocalAlwaysRemote(valid) == "remote"

AfterLocalRetry(valid) == IF valid THEN "returned" ELSE "local"

AfterLocal(valid) ==
    IF valid THEN "returned"
    ELSE IF fallbackToGemini THEN "remote"
    ELSE "rejected"

\* the result built from the Gemini answer
FromRemoteAsLocal(text) ==
    [text |-> text, source |-> "local-llm", usedMethod |-> "local-llm"]

FromRemote(text) ==
    [text |-> text, source |-> "gemini-api", usedMethod |-> "gemini-api"]

\* the result of the local engine, with usedMethod added
FromLocal(text) ==
    [text |-> text, source |-> "local-llm", usedMethod |-> "local-llm"]

\* extractText is called: it awaits the local model or, without it, the
\* Gemini API
HStart ==
    /\ h_pc = "start"
    /\ IF TryLocal(h_flags)
       THEN /\ h_pc' = "local"
            /\ h_localCalls' = h_localCalls + 1
            /\ UNCHANGED <<h_remoteCalls, h_error>>
       ELSE IF fallbackToGemini
       THEN /\ h_pc' = "remote"
            /\ h_remoteCalls' = h_remoteCalls + 1
            /\ UNCHANGED <<h_localCalls, h_error>>
       ELSE /\ h_pc' = "rejected"
            /\ h_error' = "all-methods-failed"
            /\ UNCHANGED <<h_localCalls, h_remoteCalls>>
    /\ UNCHANGED <<h_flags, h_field, h_local, h_remote, h_result, restH>>

\* the local call settles
HLocalReturn(out) ==
    /\ h_pc = "local"
    /\ LET res == LocalExtractText(h_flags.initialized, out)
           valid == res.kind = "text" /\ isValidResult(res.text, h_field)
           nxt == AfterLocal(valid)
       IN /\ h_local' = res
          /\ h_pc' = nxt
          /\ h_result' = IF nxt = "returned" THEN FromLocal(res.text) ELSE h_result
          /\ h_localCalls' = IF nxt = "local" THEN h_localCalls + 1 ELSE h_localCalls
          /\ h_remoteCalls' = IF nxt = "remote" THEN h_remoteCalls + 1
                              ELSE h_remoteCalls
          /\ h_error' = IF nxt = "rejected" THEN "all-methods-failed" ELSE h_error
    /\ UNCHANGED <<h_flags, h_field, h_remote, restH>>

\* the Gemini call settles
HRemoteReturn(out) ==
    /\ h_pc = "remote"
    /\ h_remote' = out
    /\ IF out.kind = "ok"
       THEN /\ h_pc' = "returned"
            /\ h_result' = FromRemote(out.text)
            /\ h_error' = h_error
       ELSE /\ h_pc' = "rejected"
            /\ h_error' = out.error
            /\ h_result' = h_result
    /\ UNCHANGED <<h_flags, h_field, h_localCalls, h_remoteCalls, h_local, restH>>

\* no extractText call under way
HIdle ==
    /\ h_flags = [useLocalLLM |-> TRUE, localLLMReady |-> FALSE,
                  initialized |-> FALSE]
    /\ h_field = Null
    /\ h_pc = "idle"
    /\ h_localCalls = 0
    /\ h_remoteCalls = 0
    /\ h_local = NoOutcome
    /\ h_remote = NoOutcome
    /\ h_result = NoResult
    /\ h_error = ""

\* extractText called for any field type, in any state of the manager
HInit ==
    /\ h_flags \in [useLocalLLM : BOOLEAN, localLLMReady : BOOLEAN,
                    initialized : BOOLEAN]
    /\ h_field \in HFields
    /\ h_pc = "start"
    /\ h_localCalls = 0
    /\ h_remoteCalls = 0
    /\ h_local = NoOutcome
    /\ h_remote = NoOutcome
    /\ h_result = NoResult
    /\ h_error = ""

\* ------------------------------------------------------------------------
\* imageCache taken alone: the lookup, the store and the clearing that the
\* handlers make, on caches of any size up to the limit. A key is written
\* as a number.
\* ------------------------------------------------------------------------

\* the keys used: the oldest ones, those around the capacity, and new ones
CKeys == {1, 2, cacheLimit} \cup {cacheLimit + i : i \in 1..ExtraKeys}

CValues == {<<"x">>, <<"0", "3">>}

\* the cache after n stores of distinct keys
Filled(n) == [i \in 1..n |-> [key |-> i, value |-> <<"x">>]]

\* imageCache.set(cacheKey, processedText) with the size limit
CPut(k, v) ==
    /\ c_ops < MaxCacheOps
    /\ c_ops' = c_ops + 1
    /\ c_op' = [kind |-> "put", key |-> k, value |-> v]
    /\ c_prev' = imageCache
    /\ imageCache' = CachePut(imageCache, k, v)
    /\ UNCHANGED restC

\* imageCache.get(cacheKey)
CGet(k) ==
    /\ c_ops < MaxCacheOps
    /\ c_ops' = c_ops + 1
    /\ c_op' = [kind |-> "get", key |-> k, value |-> CacheGet(imageCache, k).value]
    /\ c_prev' = imageCache
    /\ imageCache' = imageCache
    /\ UNCHANGED restC

\* imageCache.clear()
CClear ==
    /\ c_ops < MaxCacheOps
    /\ c_ops' = c_ops + 1
    /\ c_op' = [kind |-> "clear", key |-> 0, value |-> <<>>]
    /\ c_prev' = imageCache
    /\ imageCache' = <<>>
    /\ UNCHANGED restC

CIdle ==
    /\ c_op = [kind |-> "none", key |-> 0, value |-> <<>>]
    /\ c_prev = <<>>
    /\ c_ops = 0

\* ------------------------------------------------------------------------
\* compressImageToSize
\* ------------------------------------------------------------------------

\* qualityLevels and dimensionLimits, index by index (quality in tenths)
Ladder ==
    << [quality |-> 8, maxDimension |-> 1400],
       [quality |-> 6, maxDimension |-> 1200],
       [quality |-> 4, maxDimension |-> 1000],
       [quality |-> 3, maxDimension |-> 800] >>

\* base64 lengths of the images handed to compressImageToSize:
\* extractTextWithGemini calls it only after checkImageSize threw
LImages == {l \in B64Lengths \cup {27962027} : Exceeds(l, MAX_SIZE_MB)}

\* how an optimizeImage call can end: a re-encoded data URL whose base64 part
\* has some length, imageData itself (invalid input, or its own catch), or
\* null (FileReader.result after a read that failed)
OptimizeOutcomes ==
    {[kind |-> "encoded", len |-> l] :
        l \in {1000, 13981013, 13981014, 20971521}} \cup
    {[kind |-> "unchanged", len |-> 0], [kind |-> "null", len |-> 0]}

NoImage == [null |-> TRUE, len |-> 0]

\* await optimizeImage(imageData, {quality, maxDimension, ...})
optimizeImage(len, out) ==
    CASE out.kind = "encoded" -> [null |-> FALSE, len |-> out.len]
      [] out.kind = "unchanged" -> [null |-> FALSE, len |-> len]
      [] OTHER -> NoImage

\* a test against the hard cap of checkImageSize instead of the target
QualifiesUnderCap(res, targetSizeMB) ==
    ~res.null /\ ~Exceeds(res.len, MAX_SIZE_MB)

\* sizeInMB <= targetSizeMB; compressedImage.split throws on null, which the
\* catch of the loop turns into `continue`
Qualifies(res, targetSizeMB) == ~res.null /\ ~Exceeds(res.len, targetSizeMB)

\* one iteration of the loop, and the throw after the last one
LStep(out) ==
    /\ l_pc = "loop"
    /\ LET res == optimizeImage(l_image, out) IN
        /\ l_tried' = Append(l_tried, Ladder[l_step])
        /\ l_results' = Append(l_results, res)
        /\ IF Qualifies(res, compressTargetMB)
           THEN /\ l_pc' = "returned"
                /\ l_result' = res
                /\ l_step' = l_step
           ELSE /\ l_pc' = IF l_step = Len(Ladder) THEN "failed" ELSE "loop"
                /\ l_step' = IF l_step = Len(Ladder) THEN l_step ELSE l_step + 1
                /\ l_result' = l_result
    /\ UNCHANGED <<l_image, restL>>

LIdle ==
    /\ l_image = 0
    /\ l_pc = "idle"
    /\ l_step = 1
    /\ l_tried = <<>>
    /\ l_results = <<>>
    /\ l_result = NoImage

LInit ==
    /\ l_image \in LImages
    /\ l_pc = "loop"
    /\ l_step = 1
    /\ l_tried = <<>>
    /\ l_results = <<>>
    /\ l_result = NoImage

\* ------------------------------------------------------------------------
\* activeProcessing and streamedDockOcrHandler
\* ------------------------------------------------------------------------

\* tabs that send streamedDockOcr; 0 stands for a sender without tab.id
TTabs == {1, 2}

TReqs == 1..MaxTabReqs

NoTabRequest == [pc |-> "none", tab |-> 0, valid |-> FALSE, outcome |-> "none"]

NoTabEvent == [kind |-> "none", tab |-> 0]

\* a handler that never removes an entry
setTabProcessingAddOnly(set, tabId, mark) == set \cup {tabId}

isTabProcessing(set, tabId) == tabId \in set

setTabProcessing(set, tabId, mark) ==
    IF mark THEN set \cup {tabId} ELSE set \ {tabId}

\* the request is between the handler's return and the settling of its
\* processingPromise
InFlight(r) == t_reqs[r].pc \in {"storage", "ocr", "notify"}

\* the synchronous part of streamedDockOcrHandler
StreamedDockOcr(r, tab, valid) ==
    /\ t_reqs[r].pc = "none"
    /\ \A q \in TReqs : q < r => t_reqs[q].pc # "none"
    /\ tab \notin t_closed
    /\ IF tab = 0
       THEN /\ t_reqs' = [t_reqs EXCEPT ![r] =
                   [pc |-> "done", tab |-> tab, valid |-> valid,
                    outcome |-> "no-tab"]]
            /\ activeProcessing' = activeProcessing
            /\ t_last' = [kind |-> "no-tab", tab |-> tab]
       ELSE LET cleared == IF isTabProcessing(activeProcessing, tab)
                           THEN setTabProcessing(activeProcessing, tab, FALSE)
                           ELSE activeProcessing
                marked == setTabProcessing(cleared, tab, TRUE)
            IN  IF ~valid
                THEN /\ activeProcessing' = setTabProcessing(marked, tab, FALSE)
                     /\ t_reqs' = [t_reqs EXCEPT ![r] =
                            [pc |-> "done", tab |-> tab, valid |-> valid,
                             outcome |-> "invalid-image"]]
                     /\ t_last' = [kind |-> "invalid-image", tab |-> tab]
                ELSE /\ activeProcessing' = marked
                     /\ t_reqs' = [t_reqs EXCEPT ![r] =
                            [pc |-> "storage", tab |-> tab, valid |-> valid,
                             outcome |-> "none"]]
                     /\ t_last' = [kind |-> "received", tab |-> tab]
    /\ UNCHANGED <<t_closed, t_recoveries, restT>>

\* the callback of chrome.storage.local.get: without an API key the promise
\* is rejected, and catch and finally follow before any other event
StorageRead(r, hasKey) ==
    /\ t_reqs[r].pc = "storage"
    /\ IF hasKey
       THEN /\ t_reqs' = [t_reqs EXCEPT ![r].pc = "ocr"]
            /\ UNCHANGED <<activeProcessing, t_last>>
       ELSE /\ t_reqs' = [t_reqs EXCEPT ![r].pc = "done",
                                        ![r].outcome = "no-api-key"]
            /\ activeProcessing' =
                   setTabProcessing(activeProcessing, t_reqs[r].tab, FALSE)
            /\ t_last' = [kind |-> "failed", tab |-> t_reqs[r].tab]
    /\ UNCHANGED <<t_closed, t_recoveries, restT>>

\* processImageForOCR settles; messages to the tab follow
OcrReturn(r, ok) ==
    /\ t_reqs[r].pc = "ocr"
    /\ t_reqs' = [t_reqs EXCEPT ![r].pc = "notify",
                                ![r].outcome = IF ok THEN "success" ELSE "error"]
    /\ UNCHANGED <<activeProcessing, t_closed, t_last, t_recoveries, restT>>

\* processingPromise settles: sendResponse, then the finally
Respond(r) ==
    /\ t_reqs[r].pc = "notify"
    /\ t_reqs' = [t_reqs EXCEPT ![r].pc = "done"]
    /\ activeProcessing' =
           setTabProcessing(activeProcessing, t_reqs[r].tab, FALSE)
    /\ t_last' = [kind |-> IF t_reqs[r].outcome = "success"
                           THEN "completed" ELSE "failed",
                  tab |-> t_reqs[r].tab]
    /\ UNCHANGED <<t_closed, t_recoveries, restT>>

\* chrome.tabs.onRemoved (both listeners do the same)
TabRemoved(tab) ==
    /\ tab \notin t_closed
    /\ t_closed' = t_closed \cup {tab}
    /\ activeProcessing' =
           IF isTabProcessing(activeProcessing, tab)
           THEN setTabProcessing(activeProcessing, tab, FALSE)
           ELSE activeProcessing
    /\ t_last' = [kind |-> "closed", tab |-> tab]
    /\ UNCHANGED <<t_reqs, t_recoveries, restT>>

\* handleCriticalError at MAX_ERRORS: activeProcessing.clear()
Recover ==
    /\ t_recoveries < MaxRecoveries
    /\ t_recoveries' = t_recoveries + 1
    /\ activeProcessing' = {}
    /\ t_last' = [kind |-> "recovered", tab |-> 0]
    /\ UNCHANGED <<t_reqs, t_closed, restT>>

TIdle ==
    /\ activeProcessing = {}
    /\ t_reqs = [r \in TReqs |-> NoTabRequest]
    /\ t_closed = {}
    /\ t_last = NoTabEvent
    /\ t_recoveries = 0

\* ------------------------------------------------------------------------
\* chrome.runtime.onMessage listener
\* ------------------------------------------------------------------------

Msgs == 1..MaxMsgs

\* the own properties of messageHandlers
Registered ==
    {"processImage", "processFullImage", "getOCRStatus", "cancelProcessing",
     "checkProcessingStatus", "ensureContentScriptLoaded", "streamedDockOcr",
     "initializeLocalLLM", "getUsageStats", "testApiKey", "getVersionInfo",
     "getDebugInfo", "clearCache", "executeFullOcrFromPopup",
     "executeAreaOcrFromPopup"}

\* request.action: ping, two registered actions, a name that is no property
\* of an object, and three names every object inherits from Object.prototype
MsgActions ==
    {"ping", "clearCache", "streamedDockOcr", "no-such-action", "toString",
     "constructor", "__proto__"}

\* a response as the requester sees it: `success` and `error` are "absent"
\* when the value sent has no such field
Response(success, error) == [success |-> success, error |-> error]

\* getReadableErrorMessage(error): always a string; error is the message of
\* the Error thrown, "none" for a thrown value that is not truthy
getReadableErrorMessage(error) ==
    CASE error = "none" -> "generic-error"
      [] error = "rate limit" -> "rate-limit-advice"
      [] error = "network" -> "network-advice"
      [] OTHER -> "prefixed-message"

\* messageHandlers[request.action]: the object literal inherits from
\* Object.prototype, so the lookup also finds the inherited members
messageHandlers(action) ==
    CASE action \in Registered -> "own"
      [] action \in {"toString", "constructor"} -> "inherited-function"
      [] action = "__proto__" -> "inherited-object"
      [] OTHER -> "undefined"

\* how a registered handler can end: it returns a value with success true
\* or false, or throws
HandlerOutcomes ==
    {[kind |-> "returned", success |-> "true", error |-> "absent"],
     [kind |-> "returned", success |-> "false", error |-> "handler-message"]}
    \cup {[kind |-> "threw", success |-> "absent", error |-> e] :
             e \in {"none", "rate limit", "network", "other"}}

\* messageHandlers.streamedDockOcr: the response passed to its callback
\* rejects the promise when success is false and resolves it otherwise
streamedDockOcr(out) ==
    IF out.kind = "returned" /\ out.success = "false"
    THEN [kind |-> "threw", success |-> "absent", error |-> out.error]
    ELSE out

\* the catch block of the listener
CatchResponse(error) == Response("false", getReadableErrorMessage(error))

NoMsg == [pc |-> "none", action |-> "", threw |-> FALSE, responses |-> <<>>]

\* the listener up to `await handler(request, sender)`; a handler found on
\* Object.prototype returns or throws in the same step
OnMessage(id, action) ==
    /\ m_msgs[id].pc = "none"
    /\ \A q \in Msgs : q < id => m_msgs[q].pc # "none"
    /\ LET found == messageHandlers(action)
           answer(r) == [pc |-> "responded", action |-> action,
                         threw |-> FALSE, responses |-> <<r>>]
       IN  m_msgs' = [m_msgs EXCEPT ![id] =
             CASE action = "ping" -> answer(Response("true", "absent"))
               [] found = "undefined" ->
                    answer(Response("false", "unknown-action"))
               [] found = "inherited-object" ->
                    \* handler is not a function: TypeError
                    [answer(CatchResponse("other")) EXCEPT !.threw = TRUE]
               [] found = "inherited-function" /\ action = "toString" ->
                    \* the string "[object Undefined]"
                    answer(Response("absent", "absent"))
               [] found = "inherited-function" ->
                    \* Object(request, sender) is the request itself
                    answer(Response("absent", "absent"))
               [] OTHER -> [pc |-> "handler", action |-> action,
                            threw |-> FALSE, responses |-> <<>>]]
    /\ UNCHANGED restM

\* the handler's promise settles: sendResponse(result), or the catch block
HandlerSettles(id, out) ==
    /\ m_msgs[id].pc = "handler"
    /\ LET end == IF m_msgs[id].action = "streamedDockOcr"
                  THEN streamedDockOcr(out) ELSE out
           r == IF end.kind = "threw" THEN CatchResponse(end.error)
                ELSE Response(end.success, end.error)
       IN  m_msgs' = [m_msgs EXCEPT ![id].pc = "responded",
                                    ![id].threw = (end.kind = "threw"),
                                    ![id].responses = Append(@, r)]
    /\ UNCHANGED restM

MIdle == m_msgs = [id \in Msgs |-> NoMsg]

\* ------------------------------------------------------------------------
\* Notifications to the tab (safeTabMessage, chrome.tabs.sendMessage)
\* ------------------------------------------------------------------------

\* a request with a tab, and how processImageForOCR ends for it ("empty":
\* a text that post-processes to nothing, for streamedDockOcr only)
BInputs ==
    [handler : {"processImage"}, primary : {"text", "error"}] \cup
    [handler : {"streamedDockOcr"}, primary : {"text", "empty", "error"}]

\* a safeTabMessage that rejects when the message is not delivered
safeTabMessageRejecting(delivered) ==
    IF delivered THEN "resolved" ELSE "rejected"

\* safeTabMessage: resolves with the tab's response, or with false when the
\* tab does not exist or the message cannot be sent
safeTabMessage(delivered) == IF delivered THEN "resolved" ELSE "resolved-false"

\* the handler before its first notification
BStart(in) ==
    [pc |-> IF in.handler = "processImage" THEN "p-show" ELSE "s-show",
     error |-> IF in.primary = "error" THEN "primary-error" ELSE "none",
     response |-> Response("absent", "absent")]

BDone(c, response) == [c EXCEPT !.pc = "done", !.response = response]

\* handleImageProcessing from one chrome.tabs.sendMessage to the next: the
\* promises the calls return are dropped
ImageProcessingStep(c, in) ==
    CASE c.pc = "p-show" ->
            [c EXCEPT !.pc = IF in.primary = "error" THEN "p-err-hide"
                             ELSE "p-hide"]
      [] c.pc = "p-hide" -> BDone(c, Response("true", "absent"))
      [] c.pc = "p-err-hide" -> [c EXCEPT !.pc = "p-err-show"]
      [] OTHER -> BDone(c, Response("false", c.error))

\* streamedDockOcrHandler from one safeTabMessage to the next, `sent` being
\* how that promise settled
StreamedDockStep(c, in, sent) ==
    CASE c.pc = "s-show" ->
            \* clearErrorNotifications and showProcessing are not chained
            [c EXCEPT !.pc = IF in.primary = "error" THEN "s-err-hide"
                             ELSE "s-hide"]
      [] c.pc \in {"s-hide", "s-check", "s-actions", "s-notify", "s-status"}
         /\ sent = "rejected" ->
            \* the chain skips to its catch
            [c EXCEPT !.pc = "s-err-hide", !.error = "delivery-error"]
      [] c.pc = "s-hide" -> [c EXCEPT !.pc = "s-check"]
      [] c.pc = "s-check" -> [c EXCEPT !.pc = "s-actions"]
      [] c.pc = "s-actions" ->
            \* an empty successMessage: no showNotification
            IF in.primary = "empty" THEN BDone(c, Response("true", "absent"))
            ELSE [c EXCEPT !.pc = "s-notify"]
      [] c.pc = "s-notify" -> [c EXCEPT !.pc = "s-status"]
      [] c.pc = "s-status" -> BDone(c, Response("true", "absent"))
      [] c.pc = "s-err-hide" /\ sent # "rejected" ->
            [c EXCEPT !.pc = "s-err-show"]
      [] OTHER ->
            \* finally: reject(error)
            BDone(c, Response("false", c.error))

BStep(c, in, delivered) ==
    IF c.pc = "done" THEN c
    ELSE IF in.handler = "processImage" THEN ImageProcessingStep(c, in)
    ELSE StreamedDockStep(c, in, safeTabMessage(delivered))

\* the next notification of the request, delivered or not
Notify(delivered) ==
    /\ b_in.handler # "none"
    /\ b_all.pc # "done" \/ b_some.pc # "done"
    /\ b_all' = BStep(b_all, b_in, TRUE)
    /\ b_some' = BStep(b_some, b_in, delivered)
    /\ b_sent' = Append(b_sent, delivered)
    /\ UNCHANGED <<b_in, restB>>

BIdle ==
    /\ b_in = [handler |-> "none", primary |-> "none"]
    /\ b_all = BStart(b_in)
    /\ b_some = BStart(b_in)
    /\ b_sent = <<>>

BInit ==
    /\ b_in \in BInputs
    /\ b_all = BStart(b_in)
    /\ b_some = BStart(b_in)
    /\ b_sent = <<>>

\* ------------------------------------------------------------------------
\* loadSettings, its await included
\* ------------------------------------------------------------------------

Loads == 1..MaxLoads

NoLoad ==
    [pc |-> "none", afterChange |-> FALSE, snapshot |-> Null,
     result |-> Null, returnedAt |-> 0]

\* loadSettings up to its return from cachedSettings or to its await of
\* chrome.storage.local.get
LoadStart(c) ==
    /\ s_loads[c].pc = "none"
    /\ \A q \in Loads : q < c => s_loads[q].pc # "none"
    /\ s_loads' = [s_loads EXCEPT ![c] =
          IF CacheUsable(cachedSettings, now)
          THEN [NoLoad EXCEPT !.pc = "done", !.afterChange = (changes > 0),
                              !.result = cachedSettings, !.returnedAt = now]
          ELSE [NoLoad EXCEPT !.pc = "await", !.afterChange = (changes > 0)]]
    /\ UNCHANGED <<svars, restS>>

\* the browser reads the stored values for a pending get
StorageGet(c) ==
    /\ s_loads[c].pc = "await"
    /\ s_loads' = [s_loads EXCEPT ![c].pc = "read", ![c].snapshot = storage]
    /\ UNCHANGED <<svars, restS>>

\* the await ends: cachedSettings is replaced by what the get read
LoadResume(c) ==
    /\ s_loads[c].pc = "read"
    /\ cachedSettings' = ReadSettings(s_loads[c].snapshot, now)
    /\ s_loads' = [s_loads EXCEPT ![c].pc = "done",
                                  ![c].result = cachedSettings',
                                  ![c].returnedAt = now]
    /\ UNCHANGED <<storage, restS>>

SLIdle == s_loads = [c \in Loads |-> NoLoad]

\* ------------------------------------------------------------------------
\* The text functions, called on their own
\* ------------------------------------------------------------------------

FieldTypes == {"phone-number", "payee-name", "phonetic", "clipboard", "freeform"}

\* the characters the short texts for a field type are made of: those its
\* steps tell apart
FieldChars(f) ==
    CASE f = "phone-number" -> {"x", " ", ",", "-", "3", "fw0"}
      [] f = "payee-name" -> {"x", " ", ",", ":", "ng-word", "shi", "ten"}
      [] f = "phonetic" -> {"x", " ", "hw-ka", "hw-dakuten", "kata-ka", "kata-ve"}
      [] OTHER -> {"x", " ", "fw0", "hw-ka", "hw-dakuten"}

FChars == UNION {FieldChars(f) : f \in FieldTypes}

\* every text of at most n of the characters
TextsUpTo(chars, n) == UNION {[1..k -> chars] : k \in 0..n}

\* the digits '1234567890123...' up to the k-th
Fill(k) ==
    [i \in 1..k |->
        <<"1", "2", "3", "4", "5", "6", "7", "8", "9", "0">>[((i - 1) % 10) + 1]]

\* how a digit string starts: any three digits or fewer, or 0120
Prefixes ==
    UNION {[1..k -> Digits] : k \in 0..3} \cup {<<"0", "1", "2", "0">>}

\* any two digits or fewer
ShortPrefixes == UNION {[1..k -> Digits] : k \in 0..2}

\* digit strings of every length up to n: one of the starts and '1234...'
DigitStrings(prefixes, n) ==
    {p \o Fill(m - Len(p)) : p \in prefixes, m \in 0..n}

\* '株式会社テスト, 支店' and the like
SampleTexts ==
    {<<"ng-word", "x", ",", " ", "shi", "ten">>,
     <<"x", " ", "ng-word", ",", "ja-comma", "x", ":">>,
     <<"0", "3", "-", "1", "2", "3", "4", "-", "5", "6", "7", "8", ",", "fw0", "9", "0">>}

\* ------------------------------------------------------------------------
\* parseMultiFieldResult
\* ------------------------------------------------------------------------

RECURSIVE FirstLine(_)
\* (.*?)(?:\n|$): the characters up to the first line break
FirstLine(t) ==
    IF t = <<>> \/ Head(t) = "\n" THEN <<>>
    ELSE <<Head(t)>> \o FirstLine(Tail(t))

\* the places where the label, followed by ':', is in the text
LabelAt(text, label) ==
    {i \in 1..(Len(text) - 1) : text[i] = label /\ text[i + 1] = ":"}

\* text.match(/label:[\s　]*(.*?)(?:\n|$)/i): whether it matched, and the
\* group: white space, line breaks included, is skipped after the first
\* label and the group is what follows on that line
Match(text, label) ==
    IF LabelAt(text, label) = {} THEN [found |-> FALSE, group |-> <<>>]
    ELSE LET i == CHOOSE x \in LabelAt(text, label) :
                     \A y \in LabelAt(text, label) : x <= y
         IN [found |-> TRUE,
             group |-> FirstLine(TrimStart(SubSeq(text, i + 2, Len(text))))]

\* match && match[1] ? match[1].trim() : ''
Group1(mt) == IF mt.found /\ mt.group # <<>> THEN Trim(mt.group) ELSE <<>>

\* toLowerCase of the letters of 'tel' and 'phone'
Lower(ch) ==
    CASE ch = "T" -> "t" [] ch = "E" -> "e" [] ch = "L" -> "l"
      [] ch = "P" -> "p" [] ch = "H" -> "h" [] ch = "O" -> "o"
      [] ch = "N" -> "n" [] OTHER -> ch

\* /^\d[\d\-\s\(\)]*$/.test(name)
NumberLike(name) ==
    /\ name # <<>>
    /\ name[1] \in Digits
    /\ \A i \in 1..Len(name) :
          name[i] \in Digits \cup WhiteSpace \cup {"-", "(", ")"}

\* the filter of the company names between commas
KeepName(name) ==
    LET lower == [i \in 1..Len(name) |-> Lower(name[i])]
    IN /\ name # <<>>
       /\ ~StartsWith(name, <<"label-phone">>)
       /\ ~StartsWith(lower, <<"t", "e", "l">>)
       /\ ~StartsWith(lower, <<"p", "h", "o", "n", "e">>)
       /\ ~NumberLike(name)

\* parseMultiFieldResult after the two matches: post-processing and the
\* exclusion of labels and numbers
ParseFields(company, phone) ==
    LET c1 == postProcessOcrResult(company, "payee-name")
        p1 == postProcessOcrResult(phone, "phone-number")
        c2 == IF Trim(c1) \in {<<"label-phone">>, <<"label-phone", ":">>}
              THEN <<>> ELSE c1
        p2 == IF Trim(p1) \in {<<"label-company">>, <<"label-company", ":">>}
              THEN <<>> ELSE p1
        names == LET pieces == SplitOnComma(c2, <<>>)
                 IN SelectSeq([i \in 1..Len(pieces) |-> Trim(pieces[i])], KeepName)
        c3 == IF c2 # <<>> /\ (Includes(c2, ",") \/ Includes(c2, "ja-comma"))
              THEN JoinWithComma(names)
              ELSE c2
        p3 == IF StartsWith(TrimStart(p2), <<"label-company">>) THEN <<>> ELSE p2
    IN ("payee-name" :> c3) @@ ("phone-number" :> p3)

\* parseMultiFieldResult reading match[1] of a match that failed
parseMultiFieldResultUnguarded(text) ==
    IF Match(text, "label-company").found /\ Match(text, "label-phone").found
    THEN [threw |-> FALSE,
          result |-> ParseFields(Group1(Match(text, "label-company")),
                                 Group1(Match(text, "label-phone")))]
    ELSE [threw |-> TRUE, result |-> <<>>]

\* parseMultiFieldResult(text): whether it threw, and what it returned
parseMultiFieldResult(text) ==
    [threw |-> FALSE,
     result |-> ParseFields(Group1(Match(text, "label-company")),
                            Group1(Match(text, "label-phone")))]

\* the characters of the response texts
ParseChars == {"label-company", "label-phone", ":", " ", "\n", "x", ",", "3"}

\* '会社名: 株式会社テスト\n電話番号: 03-1234-5678' and the like
ParseSamples ==
    {<<"label-company", ":", " ", "ng-word", "x", "\n", "label-phone", ":", " ",
       "0", "3", "-", "1", "2", "3", "4", "-", "5", "6", "7", "8">>,
     <<"label-company", ":", " ", "x", ",", "T", "E", "L", ":", "3", ",", "3", "-", "3">>,
     <<"label-phone", ":", "0", "3", "1", "2", "3", "4", "5", "6", "7", "8">>,
     <<"label-company", ":", "\n", "label-phone", ":", " ",
       "0", "3", "-", "1", "2", "3", "4", "-", "5", "6", "7", "8">>}

NoCall == [fn |-> "none", text |-> <<>>, field |-> Null]

\* the calls of postProcessOcrResult: for each field type the texts of at
\* most n of its characters and the samples, and for 'phone-number' digit
\* strings of up to d digits
PostProcessCalls(n, d) ==
    UNION {{[fn |-> "postProcessOcrResult", text |-> t, field |-> f] :
               t \in TextsUpTo(FieldChars(f), n) \cup SampleTexts} :
           f \in FieldTypes}
    \cup {[fn |-> "postProcessOcrResult", text |-> t, field |-> "phone-number"] :
            t \in DigitStrings(ShortPrefixes, d)}

\* the calls of formatPhoneNumber, on digit strings of up to d digits
FormatPhoneCalls(d) ==
    {[fn |-> "formatPhoneNumber", text |-> t, field |-> Null] :
        t \in DigitStrings(Prefixes, d)}

\* the calls of parseMultiFieldResult, on the response texts of 1 to n
\* characters and the samples
ParseCalls(n) ==
    {[fn |-> "parseMultiFieldResult", text |-> t, field |-> "payee-name"] :
        t \in UNION {[1..k -> ParseChars] : k \in 1..n} \cup ParseSamples}

\* postProcessOcrResult(text, fieldType)
PostProcess ==
    /\ f_call.fn = "postProcessOcrResult"
    /\ f_out = <<>>
    /\ f_out' = <<postProcessOcrResult(f_call.text, f_call.field)>>
    /\ UNCHANGED <<f_call, restF>>

\* postProcessOcrResult on what postProcessOcrResult returned
PostProcessAgain ==
    /\ f_call.fn = "postProcessOcrResult"
    /\ Len(f_out) = 1
    /\ f_out' = Append(f_out, postProcessOcrResult(f_out[1], f_call.field))
    /\ UNCHANGED <<f_call, restF>>

\* formatPhoneNumber(digits)
FormatPhone ==
    /\ f_call.fn = "formatPhoneNumber"
    /\ f_out = <<>>
    /\ f_out' = <<formatPhoneNumber(f_call.text)>>
    /\ UNCHANGED <<f_call, restF>>

\* parseMultiFieldResult(result.text)
ParseMultiField ==
    /\ f_call.fn = "parseMultiFieldResult"
    /\ f_out = <<>>
    /\ f_out' = <<parseMultiFieldResult(f_call.text)>>
    /\ UNCHANGED <<f_call, restF>>

FIdle == f_call = NoCall /\ f_out = <<>>

FInit ==
    /\ f_call \in PostProcessCalls(MaxText, MaxDigits)
                    \cup FormatPhoneCalls(MaxDigits) \cup ParseCalls(MaxParse)
    /\ f_out = <<>>

\* ------------------------------------------------------------------------
\* One request from processImageForOCR to the end of its remote call. The
\* local attempt of the hybrid manager, between the optimization and the
\* remote call, touches neither the image nor the request queue.
\* ------------------------------------------------------------------------

\* processImageForOCR is called: it awaits optimizeImage
ROptimizeStart ==
    /\ r_pc = "idle"
    /\ r_pc' = "optimizing"
    /\ UNCHANGED restR

\* optimizeImage returns what is passed on as imageData
ROptimized(img) ==
    /\ r_pc = "optimizing"
    /\ r_pc' = "optimized"
    /\ g_image' = img
    /\ g_processed' = img
    /\ UNCHANGED <<g_pc, g_attempt, g_fetches, g_backoffs, g_compress, g_resps,
                   g_error, qvars, nvars, svars, pvars, hvars, cvars, lvars,
                   tvars, mvars, bvars, slvars, fvars, kvars, evars>>

\* extractTextWithGemini: apiRequestQueue.execute(requestFn)
RDispatch ==
    /\ r_pc = "optimized"
    /\ r_pc' = "dispatched"
    /\ submitted' = submitted + 1
    /\ promise' = [promise EXCEPT ![submitted + 1] = "pending"]
    /\ ProcessQueue(Append(queue, submitted + 1))
    /\ UNCHANGED <<now, lastRequest, timers, outcome, nvars, svars, gvars, pvars,
                   hvars, cvars, lvars, tvars, mvars, bvars, slvars, fvars, kvars, evars>>

\* processQueue invokes the requestFn
RInvoke ==
    /\ r_pc = "dispatched"
    /\ Invocation(submitted) # {}
    /\ r_pc' = "running"
    /\ g_pc' = "invoked"
    /\ UNCHANGED <<g_image, g_processed, g_attempt, g_fetches, g_backoffs,
                   g_compress, g_resps, g_error, qvars, nvars, svars, pvars,
                   hvars, cvars, lvars, tvars, mvars, bvars, slvars, fvars, kvars, evars>>

\* the requestFn has settled: resolve or reject, then finally
RSettle ==
    /\ r_pc = "running"
    /\ g_pc \in {"resolved", "rejected"}
    /\ r_pc' = "settled"
    /\ \E w \in Invocation(submitted) :
          Finish(w, IF g_pc = "resolved" THEN "ok" ELSE "err")
    /\ UNCHANGED <<now, queue, starts, submitted, nvars, svars, gvars, pvars,
                   hvars, cvars, lvars, tvars, mvars, bvars, slvars, fvars, kvars, evars>>

RIdle == r_pc = "idle"

\* ------------------------------------------------------------------------
\* isProcessingCancelled: cancelProcessing, checkProcessingStatus, and the
\* automatic recovery, next to processImage commands
\* ------------------------------------------------------------------------

\* bound on the cancelProcessing and checkProcessingStatus messages
MaxFlagMsgs == 2

NoReply == [from |-> "none", cancelled |-> FALSE]

NoCancel == [inflight |-> {}, started |-> 0]

\* the processImage commands between their arrival and their response
InFlightReqs == {r \in Reqs : reqs[r].pc \notin {"none", "done"}}

\* messageHandlers.cancelProcessing with an abort of the commands in flight
CancelProcessingAborts ==
    /\ k_msgs < MaxFlagMsgs
    /\ k_msgs' = k_msgs + 1
    /\ isProcessingCancelled' = TRUE
    /\ k_handled' = TRUE
    /\ k_reply' = [from |-> "cancelProcessing", cancelled |-> TRUE]
    /\ k_at' = [inflight |-> InFlightReqs, started |-> started]
    /\ reqs' = [r \in Reqs |->
                  IF r \in InFlightReqs
                  THEN [reqs[r] EXCEPT !.pc = "done",
                                       !.resp = Failure("cancelled")]
                  ELSE reqs[r]]
    /\ UNCHANGED <<qvars, nvars, svars, gvars, imageCache, started, served,
                   changes, dropped, lastEvent, hvars, cvars, lvars, tvars,
                   mvars, bvars, slvars, fvars, rvars, evars>>

\* messageHandlers.cancelProcessing: isProcessingCancelled = true;
\* return {cancelled: true}
CancelProcessing ==
    /\ k_msgs < MaxFlagMsgs
    /\ k_msgs' = k_msgs + 1
    /\ isProcessingCancelled' = TRUE
    /\ k_handled' = TRUE
    /\ k_reply' = [from |-> "cancelProcessing", cancelled |-> TRUE]
    /\ k_at' = [inflight |-> InFlightReqs, started |-> started]
    /\ UNCHANGED restK

\* a status that is computed from the commands in flight
checkProcessingStatusInFlight(flag) ==
    [from |-> "checkProcessingStatus",
     cancelled |-> flag /\ InFlightReqs # {}]

\* return {cancelled: isProcessingCancelled}
checkProcessingStatus(flag) ==
    [from |-> "checkProcessingStatus", cancelled |-> flag]

\* messageHandlers.checkProcessingStatus
CheckProcessingStatus ==
    /\ k_msgs < MaxFlagMsgs
    /\ k_msgs' = k_msgs + 1
    /\ k_reply' = checkProcessingStatus(isProcessingCancelled)
    /\ UNCHANGED <<isProcessingCancelled, k_handled, k_at, restK>>

\* handleCriticalError when errorCount reaches MAX_ERRORS: imageCache and
\* activeProcessing are cleared and cachedSettings is invalidated
HandleCriticalError ==
    /\ t_recoveries < MaxRecoveries
    /\ t_recoveries' = t_recoveries + 1
    /\ imageCache' = <<>>
    /\ activeProcessing' = {}
    /\ cachedSettings' = [cachedSettings EXCEPT !.lastUpdate = 0]
    /\ dropped' = dropped \cup CacheKeys(imageCache)
    /\ lastEvent' = [kind |-> "recovered", before |-> imageCache]
    /\ served' = {}
    /\ reqs' = [q \in Reqs |-> [reqs[q] EXCEPT !.after = FALSE]]
    /\ UNCHANGED <<qvars, nvars, storage, gvars, started, changes, hvars, cvars,
                   lvars, t_reqs, t_closed, t_last, xvars>>

KIdle ==
    /\ isProcessingCancelled = FALSE
    /\ k_handled = FALSE
    /\ k_msgs = 0
    /\ k_reply = NoReply
    /\ k_at = NoCancel

\* ------------------------------------------------------------------------
\* LocalLLMEngine: initialize, switchModel with cleanup, extractText and
\* getStatus; every await ends a step
\* ------------------------------------------------------------------------

\* bound on the initialize, switchModel and extractText calls
MaxEngineCalls == 3

ECalls == 1..MaxEngineCalls

\* two models of getAvailableModels() and a name that is not in the list
EModels == {"Phi-3-mini", "Qwen2.5-0.5B", "no-such-model"}

availableModels == {"Phi-3-mini", "Qwen2.5-0.5B"}

NoEngineCall ==
    [op |-> "none", model |-> Null, pc |-> "none", loader |-> FALSE,
     result |-> "none", used |-> Null, reported |-> Null]

NoStatus == [initialized |-> FALSE, loading |-> FALSE, modelName |-> Null,
             webllmLoaded |-> FALSE, asked |-> FALSE]

\* an entry of initialize without the isLoading test
initializeEntryUnguarded(isLoading, initialized, modelName, model) ==
    IF initialized /\ modelName = model THEN "true"
    ELSE IF model \notin availableModels THEN "throw"
    ELSE "load"

\* initialize up to its try block: return false, return true, throw, or
\* go on to load
initializeEntry(isLoading, initialized, modelName, model) ==
    IF isLoading THEN "false"
    ELSE IF initialized /\ modelName = model THEN "true"
    ELSE IF model \notin availableModels THEN "throw"
    ELSE "load"

\* call c enters initialize(model): the part before `await this.loadWebLLM()`
EnterInitialize(c, op, model) ==
    LET entry == initializeEntry(e_isLoading, e_initialized, e_modelName, model)
    IN IF entry = "load"
       THEN /\ e_isLoading' = TRUE
            /\ e_modelName' = model
            /\ e_calls' = [e_calls EXCEPT ![c] =
                   [NoEngineCall EXCEPT !.op = op, !.model = model,
                                        !.pc = "loadWebLLM", !.loader = TRUE]]
       ELSE /\ e_calls' = [e_calls EXCEPT ![c] =
                   [NoEngineCall EXCEPT !.op = op, !.model = model,
                                        !.pc = "done",
                                        !.result = IF entry = "throw"
                                                   THEN "threw" ELSE entry]]
            /\ UNCHANGED <<e_isLoading, e_modelName>>

\* the next call to be made
Fresh(c) ==
    /\ e_calls[c].pc = "none"
    /\ \A d \in ECalls : d < c => e_calls[d].pc # "none"

\* initialize(modelName) is called
EInitialize(c, model) ==
    /\ Fresh(c)
    /\ EnterInitialize(c, "initialize", model)
    /\ UNCHANGED <<e_engine, e_initialized, e_webllmLoaded, e_seen, restE>>

\* loadWebLLM settles; on an error the catch of initialize runs up to its
\* await of chrome.storage.local.set
ELoadWebLLM(c, ok) ==
    /\ e_calls[c].pc = "loadWebLLM"
    /\ e_webllmLoaded' = ok
    /\ IF ok
       THEN /\ e_calls' = [e_calls EXCEPT ![c].pc = "creating"]
            /\ UNCHANGED <<e_engine, e_initialized>>
       ELSE /\ e_calls' = [e_calls EXCEPT ![c].pc = "failing"]
            /\ e_initialized' = FALSE
            /\ e_engine' = Null
    /\ UNCHANGED <<e_modelName, e_isLoading, e_seen, restE>>

\* how Promise.race([initPromise, timeoutPromise]) can settle
CreateOutcomes == {"engine", "null", "error", "timeout"}

\* CreateMLCEngine or the timeout settles: the engine is kept and
\* initialized set, or the catch runs
ECreateEngine(c, res) ==
    /\ e_calls[c].pc = "creating"
    /\ IF res = "engine"
       THEN /\ e_engine' = e_calls[c].model
            /\ e_initialized' = TRUE
            /\ e_calls' = [e_calls EXCEPT ![c].pc = "saving"]
       ELSE /\ e_engine' = Null
            /\ e_initialized' = FALSE
            /\ e_calls' = [e_calls EXCEPT ![c].pc = "failing"]
    /\ UNCHANGED <<e_modelName, e_isLoading, e_webllmLoaded, e_seen, restE>>

\* chrome.storage.local.set settles either way: return true, then finally
ESaved(c) ==
    /\ e_calls[c].pc = "saving"
    /\ e_calls' = [e_calls EXCEPT ![c].pc = "done", ![c].result = "true"]
    /\ e_isLoading' = FALSE
    /\ UNCHANGED <<e_engine, e_initialized, e_modelName, e_webllmLoaded, e_seen,
                   restE>>

\* the storage write of the catch settles: throw error, then finally
EFailed(c) ==
    /\ e_calls[c].pc = "failing"
    /\ e_calls' = [e_calls EXCEPT ![c].pc = "done", ![c].result = "threw"]
    /\ e_isLoading' = FALSE
    /\ UNCHANGED <<e_engine, e_initialized, e_modelName, e_webllmLoaded, e_seen,
                   restE>>

\* switchModel(newModelName): return true for the current model; else
\* cleanup, which awaits engine.unload() when there is an engine
ESwitchModel(c, model) ==
    /\ Fresh(c)
    /\ IF e_modelName = model
       THEN /\ e_calls' = [e_calls EXCEPT ![c] =
                   [NoEngineCall EXCEPT !.op = "switchModel", !.model = model,
                                        !.pc = "done", !.result = "true"]]
            /\ UNCHANGED <<e_engine, e_initialized, e_modelName>>
       ELSE IF e_engine # Null
            THEN /\ e_calls' = [e_calls EXCEPT ![c] =
                        [NoEngineCall EXCEPT !.op = "switchModel",
                                             !.model = model, !.pc = "unloading"]]
                 /\ UNCHANGED <<e_engine, e_initialized, e_modelName>>
            ELSE /\ e_calls' = [e_calls EXCEPT ![c] =
                        [NoEngineCall EXCEPT !.op = "switchModel",
                                             !.model = model, !.pc = "cleaned"]]
                 /\ e_engine' = Null
                 /\ e_initialized' = FALSE
                 /\ e_modelName' = Null
    /\ UNCHANGED <<e_isLoading, e_webllmLoaded, e_seen, restE>>

\* engine.unload() settles: the three fields are reset, or, when it
\* rejected, cleanup's catch leaves them as they are
EUnloaded(c, ok) ==
    /\ e_calls[c].pc = "unloading"
    /\ e_calls' = [e_calls EXCEPT ![c].pc = "cleaned"]
    /\ IF ok
       THEN /\ e_engine' = Null
            /\ e_initialized' = FALSE
            /\ e_modelName' = Null
       ELSE UNCHANGED <<e_engine, e_initialized, e_modelName>>
    /\ UNCHANGED <<e_isLoading, e_webllmLoaded, e_seen, restE>>

\* switchModel after `await this.cleanup()`: initialize(newModelName)
ESwitchInitialize(c) ==
    /\ e_calls[c].pc = "cleaned"
    /\ EnterInitialize(c, "switchModel", e_calls[c].model)
    /\ UNCHANGED <<e_engine, e_initialized, e_webllmLoaded, e_seen, restE>>

\* extractText: throws when not initialized or without engine, else awaits
\* engine.chat.completions.create
EExtractText(c) ==
    /\ Fresh(c)
    /\ IF ~e_initialized \/ e_engine = Null
       THEN e_calls' = [e_calls EXCEPT ![c] =
                [NoEngineCall EXCEPT !.op = "extractText", !.pc = "done",
                                     !.result = "threw"]]
       ELSE e_calls' = [e_calls EXCEPT ![c] =
                [NoEngineCall EXCEPT !.op = "extractText", !.pc = "chat",
                                     !.used = e_engine]]
    /\ UNCHANGED <<e_engine, e_initialized, e_modelName, e_isLoading,
                   e_webllmLoaded, e_seen, restE>>

\* the completion returns: a non-empty text is returned with
\* model: this.modelName, an empty one throws
EChatReturn(c, ok) ==
    /\ e_calls[c].pc = "chat"
    /\ e_calls' = [e_calls EXCEPT
                     ![c].pc = "done",
                     ![c].result = IF ok THEN "text" ELSE "threw",
                     ![c].reported = IF ok THEN e_modelName ELSE Null]
    /\ UNCHANGED <<e_engine, e_initialized, e_modelName, e_isLoading,
                   e_webllmLoaded, e_seen, restE>>

\* getStatus()
getStatus ==
    [initialized |-> e_initialized, loading |-> e_isLoading,
     modelName |-> e_modelName, webllmLoaded |-> e_webllmLoaded,
     asked |-> TRUE]

EGetStatus ==
    /\ e_seen' = getStatus
    /\ e_seen' # e_seen
    /\ UNCHANGED <<e_engine, e_initialized, e_modelName, e_isLoading,
                   e_webllmLoaded, e_calls, restE>>

\* the constructor
EIdle ==
    /\ e_engine = Null
    /\ e_initialized = FALSE
    /\ e_modelName = Null
    /\ e_isLoading = FALSE
    /\ e_webllmLoaded = FALSE
    /\ e_calls = [c \in ECalls |-> NoEngineCall]
    /\ e_seen = NoStatus

\* ------------------------------------------------------------------------
\* Specifications
\* ------------------------------------------------------------------------

\* no message received, no notification under way
XIdle == MIdle /\ BIdle /\ SLIdle /\ FIdle /\ RIdle /\ KIdle /\ EIdle

vars == <<qvars, nvars, svars, gvars, pvars, hvars, cvars, lvars, tvars, xvars>>

\* the request queue, its requestFn seen as an opaque function
Init == QInit /\ NInit /\ SIdle /\ GIdle /\ PInit /\ HIdle /\ CIdle /\ LIdle /\ TIdle /\ XIdle

Next ==
    \/ Execute
    \/ \E w \in workers : WakeWorker(w)
    \/ \E w \in workers, res \in {"ok", "err"} : Settle(w, res)
    \/ \E t \in timers : TimerFire(t)
    \/ Tick

Spec == Init /\ [][Next]_vars

\* the request queue running extractTextWithGemini calls, and testApiKey
NetNext ==
    \/ Execute
    \/ \E w \in workers : WakeWorker(w)
    \/ \E t \in timers : TimerFire(t)
    \/ TickInterval
    \/ \E c \in Calls : BodyReject(c)
    \/ \E c \in Calls : BodyFetch(c)
    \/ \E c \in Calls : FetchOk(c)
    \/ \E c \in Calls, temporary \in BOOLEAN : FetchFail(c, temporary)
    \/ \E c \in Calls : FetchTimeout(c)
    \/ \E h \in http : LateResponse(h)
    \/ TestApiKey
    \/ \E h \in http : TestApiKeyResponse(h)

SpecNet == Init /\ [][NetNext]_vars

\* one extractTextWithGemini call, from its invocation by the queue
InitG == QInit /\ NInit /\ SInit /\ GInit /\ PInit /\ HIdle /\ CIdle /\ LIdle /\ TIdle /\ XIdle

GNext ==
    \/ GValidate
    \/ \E res \in CompressOutcomes : GCompress(res)
    \/ GSettings
    \/ \E resp \in Responses : GResponse(resp)
    \/ GBackoffDone

SpecG == InitG /\ [][GNext]_vars

\* processImage commands, settings changes and clearCache; at the start an
\* API key may be stored, the other settings are set by the changes, and
\* cachedSettings is loaded by the first command
InitP ==
    /\ QInit /\ NInit /\ SInit /\ GIdle /\ PInit /\ HIdle /\ CIdle /\ LIdle /\ TIdle /\ XIdle
    /\ cachedSettings = InitialCachedSettings
    /\ storage.ocrLanguage = Null
    /\ storage.ocrMode = Null
    /\ storage.geminiModel = Null

PNext ==
    \/ \E r \in Reqs, img \in PImages, f \in Fields : ProcessImage(r, img, f)
    \/ \E r \in Reqs : CacheKey(r)
    \/ \E r \in Reqs : Lookup(r)
    \/ \E r \in Reqs : Optimize(r)
    \/ \E r \in Reqs, res \in BackendResults : BackendReturn(r, res)
    \/ \E v \in ApiKeys : ChangeSetting("geminiApiKey", v)
    \/ \E v \in Languages : ChangeSetting("ocrLanguage", v)
    \/ \E v \in Modes : ChangeSetting("ocrMode", v)
    \/ \E v \in Models : ChangeSetting("geminiModel", v)
    \/ \E k \in OtherKeys : ChangeOther(k)
    \/ ClearCache
    \/ TickTtl

SpecP == InitP /\ [][PNext]_vars

\* one EnhancedHybridOCRManager.extractText call
InitH == QInit /\ NInit /\ SIdle /\ GIdle /\ PInit /\ HInit /\ CIdle /\ LIdle /\ TIdle /\ XIdle

HNext ==
    \/ HStart
    \/ \E out \in EngineOutcomes : HLocalReturn(out)
    \/ \E out \in RemoteOutcomes : HRemoteReturn(out)

SpecH == InitH /\ [][HNext]_vars

\* operations on imageCache, from any number of entries up to the limit
InitC ==
    /\ QInit /\ NInit /\ SIdle /\ GIdle /\ HIdle /\ CIdle /\ LIdle /\ TIdle /\ XIdle
    /\ reqs = [r \in Reqs |-> NoRequest]
    /\ started = 0
    /\ served = {}
    /\ changes = 0
    /\ dropped = {}
    /\ lastEvent = NoEvent
    /\ imageCache \in {Filled(n) : n \in 0..cacheLimit}

CNext ==
    \/ \E k \in CKeys, v \in CValues : CPut(k, v)
    \/ \E k \in CKeys : CGet(k)
    \/ CClear

SpecC == InitC /\ [][CNext]_vars

\* one compressImageToSize call on an image that checkImageSize refused
InitL ==
    /\ QInit /\ NInit /\ SIdle /\ GIdle /\ PInit /\ HIdle /\ CIdle /\ TIdle /\ XIdle
    /\ LInit

LNext == \E out \in OptimizeOutcomes : LStep(out)

SpecL == InitL /\ [][LNext]_vars

\* streamedDockOcr requests of two tabs, tab closures and a recovery
InitT == Init

TNext ==
    \/ \E r \in TReqs, tab \in TTabs \cup {0}, valid \in BOOLEAN :
          StreamedDockOcr(r, tab, valid)
    \/ \E r \in TReqs, hasKey \in BOOLEAN : StorageRead(r, hasKey)
    \/ \E r \in TReqs, ok \in BOOLEAN : OcrReturn(r, ok)
    \/ \E r \in TReqs : Respond(r)
    \/ \E tab \in TTabs : TabRemoved(tab)
    \/ Recover

SpecT == InitT /\ [][TNext]_vars

\* messages handled by the onMessage listener
MNext ==
    \/ \E id \in Msgs, action \in MsgActions : OnMessage(id, action)
    \/ \E id \in Msgs, out \in HandlerOutcomes : HandlerSettles(id, out)

SpecM == Init /\ [][MNext]_vars

\* one request seen twice: with every notification delivered, and with any
\* of them lost
InitB ==
    /\ QInit /\ NInit /\ SIdle /\ GIdle /\ PInit /\ HIdle /\ CIdle /\ LIdle
    /\ TIdle /\ MIdle /\ SLIdle /\ FIdle /\ RIdle /\ KIdle /\ EIdle /\ BInit

BNext == \E delivered \in BOOLEAN : Notify(delivered)

SpecB == InitB /\ [][BNext]_vars

\* loadSettings calls, setting changes and the passing of time
SNext ==
    \/ \E c \in Loads : LoadStart(c)
    \/ \E c \in Loads : StorageGet(c)
    \/ \E c \in Loads : LoadResume(c)
    \/ \E v \in ApiKeys : ChangeSetting("geminiApiKey", v)
    \/ \E v \in Languages : ChangeSetting("ocrLanguage", v)
    \/ \E v \in Modes : ChangeSetting("ocrMode", v)
    \/ \E v \in Models : ChangeSetting("geminiModel", v)
    \/ TickTtl

SpecS == InitG /\ [][SNext]_vars

\* one request, from processImageForOCR on
InitR == QInit /\ NInit /\ SInit /\ GIdle /\ PInit /\ HIdle /\ CIdle /\ LIdle /\ TIdle /\ XIdle

RNext ==
    \/ ROptimizeStart
    \/ \E img \in Images : ROptimized(img)
    \/ RDispatch
    \/ RInvoke
    \/ GValidate
    \/ \E res \in CompressOutcomes : GCompress(res)
    \/ GSettings
    \/ \E resp \in Responses : GResponse(resp)
    \/ GBackoffDone
    \/ RSettle

SpecR == InitR /\ [][RNext]_vars

\* one call of a text function, on any of the texts
InitF ==
    /\ QInit /\ NInit /\ SIdle /\ GIdle /\ PInit /\ HIdle /\ CIdle /\ LIdle
    /\ TIdle /\ MIdle /\ BIdle /\ SLIdle /\ RIdle /\ KIdle /\ EIdle /\ FInit

FNext ==
    \/ PostProcess
    \/ PostProcessAgain
    \/ FormatPhone
    \/ ParseMultiField

SpecF == InitF /\ [][FNext]_vars

\* processImage commands, cancelProcessing and checkProcessingStatus
\* messages, and the automatic recovery
InitK == InitP

KNext ==
    \/ \E r \in Reqs, img \in PImages, f \in Fields : ProcessImage(r, img, f)
    \/ \E r \in Reqs : CacheKey(r)
    \/ \E r \in Reqs : Lookup(r)
    \/ \E r \in Reqs : Optimize(r)
    \/ \E r \in Reqs, res \in BackendResults : BackendReturn(r, res)
    \/ CancelProcessing
    \/ CheckProcessingStatus
    \/ HandleCriticalError

SpecK == InitK /\ [][KNext]_vars

\* the request queue under the scheduling of the event loop: time passes, a
\* timer that is due fires, and every invoked requestFn settles
LiveNext ==
    \/ Execute
    \/ \E w \in workers : WakeWorker(w)
    \/ \E w \in workers, res \in {"ok", "err"} : Settle(w, res)
    \/ \E t \in timers : TimerFire(t)
    \/ TickOn

SpecLive ==
    /\ Init
    /\ [][LiveNext]_vars
    /\ WF_vars(TickOn)
    /\ WF_vars(\E w \in workers : WakeWorker(w))
    /\ WF_vars(\E t \in timers : TimerFire(t))
    /\ WF_vars(\E w \in workers, res \in {"ok", "err"} : Settle(w, res))

\* the local engine: calls of initialize, switchModel, extractText and
\* getStatus in any order and overlap
InitE == Init

ENext ==
    \/ \E c \in ECalls, model \in EModels : EInitialize(c, model)
    \/ \E c \in ECalls, ok \in BOOLEAN : ELoadWebLLM(c, ok)
    \/ \E c \in ECalls, res \in CreateOutcomes : ECreateEngine(c, res)
    \/ \E c \in ECalls : ESaved(c)
    \/ \E c \in ECalls : EFailed(c)
    \/ \E c \in ECalls, model \in EModels : ESwitchModel(c, model)
    \/ \E c \in ECalls, ok \in BOOLEAN : EUnloaded(c, ok)
    \/ \E c \in ECalls : ESwitchInitialize(c)
    \/ \E c \in ECalls : EExtractText(c)
    \/ \E c \in ECalls, ok \in BOOLEAN : EChatReturn(c, ok)
    \/ EGetStatus

SpecE == InitE /\ [][ENext]_vars

\* ------------------------------------------------------------------------
\* Properties of the request queue
\* ------------------------------------------------------------------------

Running == {w \in workers : w.pc = "run"}

\* C1: at most one submitted requestFn is between its invocation and its
\* settlement at any time, whenever the execute() calls are made.
MutualExclusion == Cardinality(Running) <= 1

\* a call runs while another one, submitted meanwhile, waits in the queue,
\* after an earlier call has already completed
MutualExclusionWitness ==
    /\ Cardinality(Running) = 1
    /\ Len(queue) >= 1
    /\ Len(starts) >= 2

\* C2: requestFns are invoked in the order of their execute() calls (calls are
\* numbered in submission order, so the i-th invocation is call i).
FifoOrder == \A i \in 1..Len(starts) : starts[i].call = i

\* two calls have been invoked and a third is still waiting
FifoWitness == Len(starts) >= 2 /\ Len(queue) >= 1

\* C3: the time between the invocations of two successive calls is at least
\* minInterval.
SpacingKept ==
    \A i \in 2..Len(starts) : starts[i].at - starts[i - 1].at >= minInterval

\* two successive invocations exactly minInterval apart
SpacingWitness ==
    /\ Len(starts) >= 2
    /\ starts[2].at - starts[1].at = minInterval

\* C4: a rejection is delivered to the promise of the call that rejected and
\* to no other; every settled promise carries its own call's outcome; and a
\* rejection leaves the queue able to go on (a waiting entry always has a
\* running call or a pending timer that will reach it).
FailureIsolation ==
    /\ \A c \in Calls :
          /\ promise[c] = "rejected" <=> outcome[c] = "err"
          /\ promise[c] = "fulfilled" <=> outcome[c] = "ok"
    /\ Len(queue) > 0 => (workers # {} \/ timers # {})

\* call 1 rejected, and call 2, queued behind it, was invoked and fulfilled
FailureIsolationWitness ==
    /\ outcome[1] = "err" /\ promise[1] = "rejected"
    /\ outcome[2] = "ok" /\ promise[2] = "fulfilled"

\* an entry is taken from the queue in this step: a call that had no worker
\* has one
Popped == \E w \in workers' : \A v \in workers : v.call # w.call

\* C30: no queue entry is popped within 50 ms of the settlement of the
\* previous call, whenever execute() is called.
PopAfterDelay ==
    [][Popped => (lastRequest = 0 \/ now - lastRequest >= nextDelay)]_vars

\* ------------------------------------------------------------------------
\* Properties of the remote endpoint's requests
\* ------------------------------------------------------------------------

\* C5: every HTTP request to the remote endpoint is issued from inside a call
\* executed by the request queue, and no two such requests are in flight at
\* the same time.
RemoteRequestsSerialized ==
    /\ \A h \in http : h.by = "extractTextWithGemini"
    /\ Cardinality(http) <= 1

\* ------------------------------------------------------------------------
\* Properties of one extractTextWithGemini call
\* ------------------------------------------------------------------------

\* a failed attempt of the temporary class: the 15 s timeout, or an error
\* answer whose status is 429 or 5xx or whose message carries a marker
ClassifiedTemporary(resp) ==
    \/ resp.kind = "timeout"
    \/ /\ resp.kind = "json"
       /\ (resp.status = 429 \/ resp.status >= 500 \/ resp.marks # {})

Failed(resp) == resp.kind # "text"

Settled == g_pc \in {"resolved", "rejected"}

\* C6: a call that reaches the remote endpoint makes 1 or 2 HTTP attempts; a
\* second attempt is made only after a first failure classified temporary;
\* a non-temporary failure is thrown to the caller after exactly one attempt
\* and without a back-off wait.
RetryBound ==
    /\ g_fetches <= 2
    /\ g_backoffs <= 1
    /\ (Settled /\ g_resps # <<>>) => g_fetches \in {1, 2}
    /\ g_fetches = 2 =>
          /\ Len(g_resps) >= 1
          /\ Failed(g_resps[1])
          /\ ClassifiedTemporary(g_resps[1])
    /\ (Len(g_resps) >= 1 /\ Failed(g_resps[1])
           /\ ~ClassifiedTemporary(g_resps[1])) =>
          /\ g_pc = "rejected"
          /\ g_fetches = 1
          /\ g_backoffs = 0
          /\ g_error = Thrown("attempt", ThrownMessage(g_resps[1]))

\* both attempts were made and the second failed too
RetryBoundWitness ==
    /\ g_pc = "rejected"
    /\ g_fetches = 2
    /\ Len(g_resps) = 2

\* C7: a first attempt that fails with status 429, with a status of 500 or
\* above, or by the 15 s timeout is followed by exactly one further attempt,
\* and if that attempt fails too its error is thrown to the caller.
TemporaryFailuresRetried ==
    (/\ Len(g_resps) >= 1
     /\ Failed(g_resps[1])
     /\ \/ g_resps[1].status = 429
        \/ g_resps[1].status >= 500
        \/ g_resps[1].kind = "timeout") =>
       /\ g_fetches <= 2
       /\ g_pc = "rejected" => g_fetches = 2
       /\ Settled => g_backoffs = 1
       /\ (Len(g_resps) = 2 /\ Failed(g_resps[2])) =>
             /\ g_pc = "rejected"
             /\ g_error = Thrown("attempt", ThrownMessage(g_resps[2]))

\* C8: a call whose image data is missing or does not start with
\* 'data:image/', or for which no API key is stored, fails without any HTTP
\* request and without a retry.
InvalidRequestNeverSent ==
    (g_image.head # "data:image/" \/ storage.geminiApiKey = Null) =>
       /\ g_fetches = 0
       /\ g_backoffs = 0
       /\ g_resps = <<>>
       /\ g_pc \in {"invoked", "compress", "settings", "rejected"}

\* a valid image that had to be compressed, rejected for the missing API key
InvalidRequestWitness ==
    /\ g_pc = "rejected"
    /\ g_error = Thrown("no-api-key", {})
    /\ g_image.head = "data:image/"
    /\ g_processed # g_image
    /\ g_fetches = 0

\* the estimated size of the image of the call exceeds 15 MB
Oversize == Exceeds(g_image.len, MAX_SIZE_MB)

\* C17: an image estimated above 15 MB is compressed (target 10 MB) and
\* checked again before any HTTP request; when the compression fails or the
\* second check still finds it too large the call fails without any HTTP
\* request; an image of at most 15 MB is sent as it is, without compression.
OversizeHandling ==
    /\ (Oversize /\ g_fetches > 0) =>
          /\ g_compress = "returned"
          /\ ~Exceeds(g_processed.len, MAX_SIZE_MB)
          /\ ~Exceeds(g_processed.len, compressTargetMB)
    /\ (g_compress = "failed"
        \/ (g_compress = "returned" /\ Exceeds(g_processed.len, MAX_SIZE_MB))) =>
          /\ g_fetches = 0
          /\ g_pc = "rejected"
          /\ g_error = Thrown("compression", {})
    /\ (ValidImage(g_image) /\ ~Oversize) =>
          /\ g_compress = "none"
          /\ g_pc # "compress"
          /\ g_processed = g_image

\* an image just above 15 MB, compressed and then sent
OversizeWitness ==
    /\ g_image.len = 20971521
    /\ g_compress = "returned"
    /\ g_processed # g_image
    /\ g_fetches > 0

\* ------------------------------------------------------------------------
\* Properties of processImage and the result cache
\* ------------------------------------------------------------------------

\* C9: when a result is present in the cache for the request's fingerprint,
\* the request returns the cached text at once: no image optimization, no
\* entry in the request queue, no backend call.
CacheHitTerminal ==
    \A r \in Reqs :
        reqs[r].present =>
            /\ reqs[r].pc = "done"
            /\ reqs[r].resp = Success(reqs[r].found)
            /\ ~reqs[r].optimized
            /\ ~reqs[r].enqueued
            /\ reqs[r].calls = 0

\* C10: after a request has returned success, an identical request made
\* later (no settings change, clearCache or eviction in between) is answered
\* from the cache and calls no backend.
RepeatServedFromCache ==
    \A r \in Reqs :
        (reqs[r].after /\ reqs[r].pc \in {"optimize", "backend", "done"}) =>
            /\ reqs[r].hit
            /\ ~reqs[r].enqueued
            /\ reqs[r].calls = 0

\* language, mode and model as they went into a key
KeySettings(key) == SubSeq(key, Len(key) - 2, Len(key))

\* the served request s and request r agree on the first 100 characters of
\* the image, the field type, and the language, mode and model of their keys
AgreeOnFive(s, r) ==
    /\ s[1].head = reqs[r].image.head
    /\ s[1].prefix = reqs[r].image.prefix
    /\ s[2] = reqs[r].field
    /\ KeySettings(s[3]) = KeySettings(reqs[r].key)

\* C24: a request that agrees with a served one on the first 100 characters
\* of the image, fieldType, language, mode and model has the same key and is
\* answered with the cached text at its cache lookup, whatever the rest of
\* its image is and whatever API key is stored.
FingerprintOfFive ==
    [][\A r \in Reqs :
          (reqs[r].pc = "lookup" /\ reqs'[r].pc # "lookup") =>
              \A s \in served :
                  AgreeOnFive(s, r) =>
                      /\ reqs[r].key = s[3]
                      /\ reqs'[r].hit
                      /\ reqs'[r].pc = "done"]_vars

\* the key part of C24 alone
FingerprintKeyOnly ==
    [][\A r \in Reqs :
          (reqs[r].pc = "lookup" /\ reqs'[r].pc # "lookup") =>
              \A s \in served : AgreeOnFive(s, r) => reqs[r].key = s[3]]_vars

\* ------------------------------------------------------------------------
\* Properties of EnhancedHybridOCRManager.extractText
\* ------------------------------------------------------------------------

\* the local call returned a text that isValidResult accepts
LocalValid == h_local.kind = "text" /\ isValidResult(h_local.text, h_field)

HSettled == h_pc \in {"returned", "rejected"}

\* C11: when the local backend is enabled and ready and returns a result
\* valid for the field type, extractText returns that result with usedMethod
\* 'local-llm' and the remote backend is not called.
LocalFirst ==
    LocalValid =>
        /\ h_pc = "returned"
        /\ h_result.text = h_local.text
        /\ h_result.usedMethod = "local-llm"
        /\ h_result.source = "local-llm"
        /\ h_remoteCalls = 0

LocalFirstWitness ==
    /\ TryLocal(h_flags)
    /\ LocalValid
    /\ h_field = "phone-number"
    /\ h_pc = "returned"

\* C12: when the local backend throws or returns an empty or invalid result,
\* the outcome is the remote backend's: on remote success a non-empty text
\* attributed to the remote backend, on remote failure the remote error; the
\* local error is never the one surfaced.
FallbackOutcome ==
    (h_localCalls > 0 /\ h_local.kind # "none" /\ ~LocalValid) =>
        /\ h_remoteCalls = 1
        /\ h_pc \in {"remote", "returned", "rejected"}
        /\ HSettled => h_remote.kind \in {"ok", "error"}
        /\ h_remote.kind = "ok" =>
              /\ h_pc = "returned"
              /\ h_result.text = h_remote.text
              /\ h_result.text # <<>>
              /\ h_result.source = "gemini-api"
              /\ h_result.usedMethod = "gemini-api"
        /\ h_remote.kind = "error" =>
              /\ h_pc = "rejected"
              /\ h_error = h_remote.error

FallbackOutcomeWitness ==
    /\ h_local.kind = "throw"
    /\ h_remote.kind = "ok"
    /\ h_pc = "returned"
    /\ h_result.source = "gemini-api"

\* C13: the local backend's extractText is invoked at most once per request,
\* whatever its outcome.
LocalNeverRetried == h_localCalls <= 1

LocalNeverRetriedWitness ==
    /\ h_local.kind = "throw"
    /\ h_localCalls = 1
    /\ h_remoteCalls = 1
    /\ HSettled

\* the backend call of request r returned a text that is empty or only
\* white space
CameBackEmpty(r) ==
    /\ reqs[r].calls > 0
    /\ reqs[r].raw.ok
    /\ Trim(reqs[r].raw.text) = <<>>

\* C14: when the text obtained from the backend is empty or only white space,
\* the request fails with the EMPTY_RESULT error, whose message is the one of
\* its field type, after a single backend attempt and with no success
\* response.
EmptyResultFails ==
    \A r \in Reqs :
        CameBackEmpty(r) =>
            /\ reqs[r].pc = "done"
            /\ reqs[r].resp.kind = "error"
            /\ reqs[r].resp.code = "EMPTY_RESULT"
            /\ reqs[r].resp.error =
                 (IF reqs[r].field = "phone-number" THEN "phone-number-not-recognized"
                  ELSE IF reqs[r].field = "payee-name" THEN "payee-name-not-recognized"
                  ELSE "text-not-recognized")
            /\ reqs[r].calls = 1

EmptyResultWitness ==
    \E r \in Reqs :
        /\ CameBackEmpty(r)
        /\ reqs[r].field = "payee-name"
        /\ reqs[r].resp.code = "EMPTY_RESULT"

\* ------------------------------------------------------------------------
\* Properties of imageCache
\* ------------------------------------------------------------------------

\* the last operation stored a key that was absent, in a full cache
StoredBeyondCapacity ==
    /\ c_op.kind = "put"
    /\ c_op.key \notin CacheKeys(c_prev)
    /\ Len(c_prev) = cacheLimit

\* C15: the cache never holds more than 30 entries; a store that would take
\* it beyond 30 removes exactly one entry, the one inserted earliest; a lookup
\* leaves the entries and their order as they are.
CacheCapacity ==
    /\ Len(imageCache) <= cacheLimit
    /\ c_op.kind = "get" => imageCache = c_prev
    /\ StoredBeyondCapacity =>
          imageCache =
              Append(Tail(c_prev), [key |-> c_op.key, value |-> c_op.value])
    /\ (c_op.kind = "put" /\ ~StoredBeyondCapacity) =>
          CacheKeys(c_prev) \subseteq CacheKeys(imageCache)

\* a store beyond the capacity after an earlier operation: the oldest key
\* is gone, the second oldest one stays
CacheCapacityWitness ==
    /\ StoredBeyondCapacity
    /\ 1 \notin CacheKeys(imageCache)
    /\ 2 \in CacheKeys(imageCache)
    /\ c_ops >= 2

\* C16: after a change of an OCR setting (API key, language, mode, model) or
\* a clearCache command, the lookup of a key cached before it misses (until
\* a result is stored under the key again); a change of another stored key
\* leaves the cache as it is.
CacheInvalidation ==
    /\ dropped \cap CacheKeys(imageCache) = {}
    /\ \A r \in Reqs : reqs[r].wasDropped => ~reqs[r].present /\ ~reqs[r].hit
    /\ lastEvent.kind \in {"ocr-setting", "clearCache"} => imageCache = <<>>
    /\ lastEvent.kind = "other-setting" => imageCache = lastEvent.before

\* a request looks up a key that a settings change removed, and misses
CacheInvalidationWitness ==
    \E r \in Reqs :
        /\ reqs[r].wasDropped
        /\ reqs[r].pc = "optimize"
        /\ changes > 0


\* ------------------------------------------------------------------------
\* Properties of compressImageToSize
\* ------------------------------------------------------------------------

\* the i-th optimizeImage call gave an image of at most 10 MB
Fits(i) ==
    /\ ~l_results[i].null
    /\ l_results[i].len * 3 <= compressTargetMB * 4 * MB

\* C18: compressImageToSize tries the steps (0.8,1400), (0.6,1200),
\* (0.4,1000), (0.3,800) in that order; it returns the first result of at
\* most the target size and tries no step after it; it fails after exactly
\* four steps when no result qualifies; a step that errors is counted as
\* tried and the next step follows.
LadderOrder ==
    /\ Len(l_tried) <= 4
    /\ Len(l_results) = Len(l_tried)
    /\ l_tried = SubSeq(Ladder, 1, Len(l_tried))
    /\ \A i \in 1..(Len(l_tried) - 1) : ~Fits(i)
    /\ l_pc = "returned" =>
          /\ Len(l_tried) >= 1
          /\ Fits(Len(l_tried))
          /\ l_result = l_results[Len(l_tried)]
    /\ l_pc = "failed" =>
          /\ Len(l_tried) = 4
          /\ ~Fits(4)
    /\ l_pc = "loop" =>
          /\ Len(l_tried) < 4
          /\ \A i \in 1..Len(l_tried) : ~Fits(i)

\* the third step qualifies after a step that errored and one that was too big
LadderWitness ==
    /\ l_pc = "returned"
    /\ Len(l_tried) = 3
    /\ l_results[1].null
    /\ l_tried[3] = [quality |-> 4, maxDimension |-> 1000]

\* no step qualifies, one of them errored: the call fails after four steps
LadderExhaustedWitness ==
    /\ l_pc = "failed"
    /\ Len(l_tried) = 4
    /\ l_results[2].null


\* ------------------------------------------------------------------------
\* Properties of the tab state
\* ------------------------------------------------------------------------

\* the requests of a tab that are in flight
InFlightOf(tab) == {r \in TReqs : InFlight(r) /\ t_reqs[r].tab = tab}

\* C19: the tab of a request is not in the processing set once the request
\* has completed, has failed (the invalid-image exit included) or the tab
\* has been closed; a tab with no request in flight is not marked as
\* processing.
TabCleanup ==
    /\ t_last.kind \in {"completed", "failed", "invalid-image", "closed"} =>
          t_last.tab \notin activeProcessing
    /\ \A tab \in TTabs : InFlightOf(tab) = {} => tab \notin activeProcessing

\* a request marked its tab, failed in OCR, and the tab is unmarked again
TabCleanupWitness ==
    \E r \in TReqs :
        /\ t_reqs[r].pc = "done"
        /\ t_reqs[r].outcome = "error"
        /\ t_last = [kind |-> "failed", tab |-> t_reqs[r].tab]
        /\ InFlightOf(t_reqs[r].tab) = {}
        /\ t_reqs[r].tab \notin activeProcessing

\* C20: at no time are two OCR requests of the same tab in flight together.
OneRequestPerTab ==
    \A r1, r2 \in TReqs :
        (r1 # r2 /\ t_reqs[r1].pc = "ocr" /\ t_reqs[r2].pc = "ocr") =>
            t_reqs[r1].tab # t_reqs[r2].tab


\* ------------------------------------------------------------------------
\* Properties of the onMessage listener
\* ------------------------------------------------------------------------

\* C21: every message gets exactly one response once its action is unknown
\* or its handler has returned or thrown, and the response to an unknown
\* action or to a handler exception is {success: false, error: <string>}.
OneResponseEach ==
    \A id \in Msgs :
        /\ Len(m_msgs[id].responses) <= 1
        /\ m_msgs[id].pc = "responded" =>
              /\ Len(m_msgs[id].responses) = 1
              /\ (m_msgs[id].threw
                  \/ m_msgs[id].action \notin Registered \cup {"ping"}) =>
                    /\ m_msgs[id].responses[1].success = "false"
                    /\ m_msgs[id].responses[1].error # "absent"


\* ------------------------------------------------------------------------
\* Properties of the notifications
\* ------------------------------------------------------------------------

SettingsValues(x) ==
    [apiKey |-> x.apiKey, language |-> x.language, mode |-> x.mode,
     model |-> x.model]

\* C23: a loadSettings call started after a change of the API key, language,
\* mode or model was observed returns the values stored since that change,
\* whatever calls were in progress at the change; with no change at all the
\* values returned were read less than 30 s before.
SettingsFresh ==
    \A c \in Loads :
        s_loads[c].pc = "done" =>
            /\ (changes = 1 /\ s_loads[c].afterChange) =>
                  SettingsValues(s_loads[c].result)
                      = SettingsValues(ReadSettings(storage, 0))
            /\ changes = 0 =>
                  s_loads[c].returnedAt - s_loads[c].result.lastUpdate
                      < settingsTtl


\* ------------------------------------------------------------------------
\* Properties of the stages of a request
\* ------------------------------------------------------------------------

\* checkImageSize has been called on the image of the request
SizeChecked ==
    \/ g_pc \in {"compress", "settings", "race", "backoff", "resolved"}
    \/ g_pc = "rejected" /\ g_error # Thrown("invalid-image", {})

\* C29: the optimization, the size check and the compression of a request
\* are over when the request is given to the request queue: the size check
\* has been made by then, and no compression runs while the queue is
\* processing the request.
StageOrder ==
    /\ r_pc = "dispatched" => SizeChecked
    /\ g_pc = "compress" => ~processing

\* the optimization is over when the request is given to the request queue
OptimizedBeforeDispatch ==
    promise[1] # "none" => r_pc \notin {"idle", "optimizing"}

\* ------------------------------------------------------------------------
\* Properties of the text functions
\* ------------------------------------------------------------------------

\* C25: post-processing is idempotent: for every text and every field type,
\* post-processing the post-processed text for the same field type gives the
\* post-processed text again.
Idempotent ==
    (f_call.fn = "postProcessOcrResult" /\ Len(f_out) = 2) => f_out[2] = f_out[1]


\* C26: formatPhoneNumber on a digit string follows the table: more than 11
\* digits give the empty string; 10 digits starting 03, 06 or 04 are split
\* 2-4-4, starting 052, 072, 075, 078, 082 or 092 3-3-4, starting 0120 4-2-4;
\* 11 digits are split 3-4-4, 8 digits 4-4, 9 digits 3-3-3; in particular
\* '0312345678', '09012345678' and '123456789012' give '03-1234-5678',
\* '090-1234-5678' and ''.
PhoneTable ==
    (f_call.fn = "formatPhoneNumber" /\ Len(f_out) = 1) =>
        LET d == f_call.text
            n == Len(d)
            out == f_out[1]
        IN /\ n > 11 => out = <<>>
           /\ (n = 10 /\ SubSeq(d, 1, 2) \in {<<"0", "3">>, <<"0", "6">>, <<"0", "4">>})
                 => out = Split3(d, 2, 4)
           /\ (n = 10 /\ SubSeq(d, 1, 3) \in
                   {<<"0", "5", "2">>, <<"0", "7", "2">>, <<"0", "7", "5">>,
                    <<"0", "7", "8">>, <<"0", "8", "2">>, <<"0", "9", "2">>})
                 => out = Split3(d, 3, 3)
           /\ (n = 10 /\ SubSeq(d, 1, 4) = <<"0", "1", "2", "0">>)
                 => out = Split3(d, 4, 2)
           /\ n = 11 => out = Split3(d, 3, 4)
           /\ n = 8 => out = SubSeq(d, 1, 4) \o <<"-">> \o SubSeq(d, 5, 8)
           /\ n = 9 => out = Split3(d, 3, 3)
           /\ d = <<"0", "3", "1", "2", "3", "4", "5", "6", "7", "8">>
                 => out = <<"0", "3", "-", "1", "2", "3", "4", "-", "5", "6", "7", "8">>
           /\ d = <<"0", "9", "0", "1", "2", "3", "4", "5", "6", "7", "8">>
                 => out = <<"0", "9", "0", "-", "1", "2", "3", "4", "-",
                            "5", "6", "7", "8">>
           /\ d = <<"1", "2", "3", "4", "5", "6", "7", "8", "9", "0", "1", "2">>
                 => out = <<>>

\* '0312345678' was formatted as '03-1234-5678'
PhoneTableWitness ==
    /\ f_call = [fn |-> "formatPhoneNumber", field |-> Null,
                 text |-> <<"0", "3", "1", "2", "3", "4", "5", "6", "7", "8">>]
    /\ f_out = <<<<"0", "3", "-", "1", "2", "3", "4", "-", "5", "6", "7", "8">>>>


\* the items of a text with commas: none is empty
NoEmptyItem(t) ==
    (Includes(t, ",") \/ Includes(t, "ja-comma")) =>
        \A i \in 1..Len(SplitOnComma(t, <<>>)) : SplitOnComma(t, <<>>)[i] # <<>>

\* C27: for the field type payee-name and every text, the post-processed text
\* contains no word of the denylist, and what is left between commas is
\* joined again without the empty items; '株式会社テスト, 支店' gives 'テスト'.
DenylistStripped ==
    (f_call.fn = "postProcessOcrResult" /\ f_call.field = "payee-name"
        /\ Len(f_out) >= 1) =>
        /\ ~IncludesNgWord(f_out[1])
        /\ NoEmptyItem(f_out[1])
        /\ f_call.text = <<"ng-word", "x", ",", " ", "shi", "ten">>
              => f_out[1] = <<"x">>


\* the characters of the model's texts
TextChars ==
    FChars \cup ParseChars \cup Digits \cup
    {"ja-comma", "T", "E", "L", "dakuten", "kata-ga", "hira-ka", "hira-ga",
     "comb-dakuten"}

\* C28: parseMultiFieldResult does not throw and returns a text under
\* 'payee-name' and a text under 'phone-number'; when '会社名:' is nowhere in
\* the response text the first is empty, when '電話番号:' is nowhere in it the
\* second is empty.
ParseTotal ==
    (f_call.fn = "parseMultiFieldResult" /\ Len(f_out) = 1) =>
        /\ ~f_out[1].threw
        /\ DOMAIN f_out[1].result = {"payee-name", "phone-number"}
        /\ \A k \in {"payee-name", "phone-number"} :
              f_out[1].result[k] \in Seq(TextChars)
        /\ LabelAt(f_call.text, "label-company") = {}
              => f_out[1].result["payee-name"] = <<>>
        /\ LabelAt(f_call.text, "label-phone") = {}
              => f_out[1].result["phone-number"] = <<>>

\* a response with the phone label only was parsed: no company name, and
\* the number
ParseWitness ==
    /\ f_call.fn = "parseMultiFieldResult"
    /\ f_call.text = <<"label-phone", ":", "0", "3", "1", "2", "3", "4", "5",
                       "6", "7", "8">>
    /\ Len(f_out) = 1
    /\ f_out[1].result["payee-name"] = <<>>
    /\ f_out[1].result["phone-number"]
          = <<"0", "3", "-", "1", "2", "3", "4", "-", "5", "6", "7", "8">>


\* what follows the first label and ':' on the line of the label
OwnLine(text, label) ==
    IF LabelAt(text, label) = {} THEN [found |-> FALSE, group |-> <<>>]
    ELSE LET i == CHOOSE x \in LabelAt(text, label) :
                     \A y \in LabelAt(text, label) : x <= y
         IN [found |-> TRUE, group |-> FirstLine(SubSeq(text, i + 2, Len(text)))]

\* C40: each sub-field of parseMultiFieldResult comes from the line of its
\* own label only; in particular for '会社名:' with nothing after it on its
\* line, followed by the line '電話番号: 03-1234-5678', the payee-name is empty
\* and the phone-number is '03-1234-5678'.
FieldsSeparated ==
    (f_call.fn = "parseMultiFieldResult" /\ Len(f_out) = 1) =>
        /\ f_out[1].result["payee-name"]
              = ParseFields(Group1(OwnLine(f_call.text, "label-company")),
                            <<>>)["payee-name"]
        /\ f_out[1].result["phone-number"]
              = ParseFields(<<>>, Group1(OwnLine(f_call.text,
                                                 "label-phone")))["phone-number"]
        /\ f_call.text = <<"label-company", ":", "\n", "label-phone", ":", " ",
                           "0", "3", "-", "1", "2", "3", "4", "-", "5", "6", "7", "8">>
              => /\ f_out[1].result["payee-name"] = <<>>
                 /\ f_out[1].result["phone-number"]
                       = <<"0", "3", "-", "1", "2", "3", "4", "-", "5", "6", "7", "8">>


\* a step of request r: its position in handleImageProcessing changes
StepOf(r) == reqs'[r].pc # reqs[r].pc

NonEmptySuccess ==
    /\ \A r \in Reqs : reqs[r].resp.kind = "success" => reqs[r].resp.text # <<>>
    /\ \A i \in 1..Len(imageCache) : imageCache[i].value # <<>>


\* request r stores its result in this step (imageCache.set after the OCR)
Stores(r) ==
    /\ reqs[r].pc = "backend"
    /\ reqs'[r].pc = "done"
    /\ reqs'[r].resp.kind = "success"

\* C34: a request that was in flight when a settings change cleared
\* imageCache does not insert its result afterwards: whenever a request
\* stores, the language and mode it handed to processImageForOCR and the
\* language, mode and model encoded in its key are the stored settings in
\* force at the store.
NoStaleStore ==
    [][\A r \in Reqs :
          Stores(r) =>
              LET inForce == ReadSettings(storage, now)
              IN /\ reqs[r].settings.language = inForce.language
                 /\ reqs[r].settings.mode = inForce.mode
                 /\ KeySettings(reqs[r].key)
                       = <<inForce.language, inForce.mode, inForce.model>>]_vars


\* C36: from the moment streamedDockOcrHandler marks tab T as processing
\* until that request's response is sent, isTabProcessing(T) is true while
\* the tab stays open, also when another request for T starts or finishes in
\* between.
TabStateAccurate ==
    \A r \in TReqs :
        (InFlight(r) /\ t_reqs[r].tab \notin t_closed)
            => isTabProcessing(activeProcessing, t_reqs[r].tab)


\* a cancelProcessing message is handled in this step
CancelStep == k_msgs' # k_msgs /\ k_reply'.from = "cancelProcessing"

\* the backend call of request r, in flight at the last cancelProcessing,
\* returns in this step
ReturnsAfterCancel(r) ==
    /\ r \in k_at.inflight
    /\ reqs[r].pc = "backend"
    /\ reqs'[r].pc = "done"

\* what handleImageProcessing answers for a backend result
Answer(res, fieldType) ==
    IF ~res.ok THEN Failure("backend")
    ELSE IF IsEmptyText(res.text) THEN EmptyResult(fieldType)
    ELSE Success(postProcessOcrResult(res.text, fieldType))

\* C32: cancellation is advisory: handling cancelProcessing changes only the
\* cancelled flag (and its reply); a request in flight at the cancellation
\* keeps its place (its remote call stays queued until it returns), and
\* when it returns the text is post-processed, stored in imageCache and
\* answered as without the cancellation.
CancelIsAdvisory ==
    /\ [](\A r \in k_at.inflight :
             reqs[r].pc \in {"backend", "done"} /\ ~reqs[r].hit
                 => reqs[r].enqueued)
    /\ [][/\ CancelStep =>
                UNCHANGED <<qvars, nvars, svars, gvars, pvars, hvars, cvars,
                            lvars, tvars, mvars, bvars, slvars, fvars, rvars>>
          /\ \A r \in Reqs :
                ReturnsAfterCancel(r) =>
                    /\ reqs'[r].resp = Answer(reqs'[r].raw, reqs[r].field)
                    /\ reqs'[r].resp.kind = "success" =>
                          CacheGet(imageCache', reqs[r].key)
                              = [has |-> TRUE, value |-> reqs'[r].resp.text]]_vars

\* a request that was waiting for its backend call when cancelProcessing was
\* handled has been answered with success and its text is in the cache
CancelIsAdvisoryWitness ==
    /\ isProcessingCancelled
    /\ \E r \in k_at.inflight :
          /\ reqs[r].pc = "done"
          /\ reqs[r].calls = 1
          /\ reqs[r].resp.kind = "success"
          /\ reqs[r].resp.text # <<>>
          /\ CacheGet(imageCache, reqs[r].key).value = reqs[r].resp.text


\* a checkProcessingStatus message is handled in this step
CheckStep == k_msgs' # k_msgs /\ k_reply'.from = "checkProcessingStatus"

\* C39: the cancelled flag is never reset: once cancelProcessing has been
\* handled, no step (request start, completion, error, recovery) sets the
\* flag back to false, and every later checkProcessingStatus answers
\* cancelled: true, also for requests started afterwards.
FlagNeverReset ==
    [][/\ isProcessingCancelled => isProcessingCancelled'
       /\ k_handled => isProcessingCancelled'
       /\ (k_handled /\ CheckStep) => k_reply'.cancelled]_vars

\* after cancelProcessing a command was received and answered with an error
\* or with success, the automatic recovery ran, and checkProcessingStatus
\* answered cancelled: true
FlagNeverResetWitness ==
    /\ k_handled
    /\ k_reply = [from |-> "checkProcessingStatus", cancelled |-> TRUE]
    /\ started > k_at.started
    /\ reqs[started].pc = "done"
    /\ reqs[started].calls = 1
    /\ t_recoveries = 1


\* the queue has entries, no call is running or waiting for its spacing
\* timer, and no timer is pending
Stalled == Len(queue) > 0 /\ workers = {} /\ timers = {}

\* C33: if every invoked requestFn eventually settles, every promise
\* returned by execute() is eventually settled, whenever the execute() calls
\* are made; and the queue is never stalled.
QueueLive ==
    /\ []~Stalled
    /\ \A c \in Calls : (promise[c] = "pending") ~> (promise[c] # "pending")

\* three calls settled, the first rejected, the last two after waiting in
\* the queue behind a running call
QueueLiveWitness ==
    /\ \A c \in Calls : promise[c] \in {"fulfilled", "rejected"}
    /\ outcome[1] = "err"
    /\ Len(starts) = MaxCalls
    /\ queue = <<>>
    /\ \A i \in 2..Len(starts) : starts[i].at > starts[i - 1].at


\* the calls that set isLoading and have not settled
Loaders == {c \in ECalls : e_calls[c].loader /\ e_calls[c].pc # "done"}

\* call c enters initialize in this step, directly or from switchModel
EntersInitialize(c) ==
    \/ e_calls[c].pc = "none" /\ e_calls'[c].op = "initialize"
    \/ e_calls[c].pc = "cleaned" /\ e_calls'[c].pc # "cleaned"

\* C37: single-flight initialization: while one initialize call is loading
\* (isLoading true), any other initialize call returns false without
\* creating an engine or changing engine, initialized or modelName; at most
\* one call is loading, and isLoading is true exactly while it has not
\* settled, on success and on every failure path.
SingleFlight ==
    /\ [](/\ Cardinality(Loaders) <= 1
          /\ e_isLoading <=> Loaders # {})
    /\ [][\A c \in ECalls :
             (EntersInitialize(c) /\ e_isLoading) =>
                 /\ e_calls'[c].pc = "done"
                 /\ e_calls'[c].result = "false"
                 /\ ~e_calls'[c].loader
                 /\ UNCHANGED <<e_engine, e_initialized, e_modelName,
                                e_isLoading>>]_vars

\* an initialize call was refused while another was loading, after one
\* loading call had failed and one had succeeded
SingleFlightWitness ==
    /\ \E c \in ECalls : e_calls[c].loader /\ e_calls[c].result = "threw"
    /\ \E c \in ECalls : e_calls[c].loader /\ e_calls[c].result = "true"
    /\ \E c \in ECalls : e_calls[c].op = "initialize" /\ e_calls[c].result = "false"
    /\ ~e_isLoading

\* C38: in every state a concurrent extractText or getStatus can observe,
\* initialized is true only if engine is non-null and modelName is the model
\* with which that engine was created, also while initialize or switchModel
\* for a different model is awaiting or has failed.
EngineConsistent ==
    e_initialized => (e_engine # Null /\ e_modelName = e_engine)

====
